---- MODULE Spec2Model ----
(***************************************************************************)
(* Model of the ZenTao 11.x legacy client (ZentaoLegacyAPI): the session   *)
(* lifecycle (getSessionId / login / ensureLoggedIn / forceReLogin), the   *)
(* authenticated request primitive (request / postRequest) with its single *)
(* retry on session expiry, the paginated listings and the public          *)
(* operations built on them.                                               *)
(*                                                                         *)
(* The program runs on a single event loop.  A process of the model is one *)
(* call of a public operation; it is suspended only while one of its       *)
(* network calls is in flight (pc awaitSid / awaitLogin / awaitEndpoint).  *)
(* All other positions are synchronous code: while some process is at such *)
(* a position no other process takes a step (run to completion).           *)
(***************************************************************************)
EXTENDS Integers, Sequences, FiniteSets, TLC

\* ------------------------------------------------------------------ bounds
\* Session identifiers the backend issues before it only refuses.
MaxTokens == 2

\* this.sessionId = null (an absent token; also a missing data.sessionID).
NoToken == 0

\* if (currentPage > 100) break
MaxPages == 100
\* const pageSize = 100
PageSize == 100

\* Records of a small listing, and the page sizes the backend serves them in.
MaxRecords == 2
MaxPerPage == 2

\* The processes of the model, and those that a single-caller run uses.
Procs == {1, 2, 3}
Callers == {1}

VARIABLES
    sessionId,   \* this.sessionId: the held token, or NoToken
    srvNextTok,  \* backend: number of session identifiers issued so far
    srvLogged,   \* backend: identifiers whose login POST succeeded
    net,         \* network calls in flight
    proc,        \* per process: the running operation, its position and locals
    now,         \* the clock the timers of setTimeout run on
    batch,       \* the running downloadImages call
    calc,        \* one application of splitKeywords / calculateMatchScore
    search,      \* the running searchStories call
    dates,       \* one application of filterByDateRange
    tools,       \* the running batch tool call (batchUpdateTasks / batchResolveBugs)
    sniff,       \* one application of detectMimeType to a payload
    judged,      \* one application of isSessionExpired to a response body
    export       \* the running exportItems call and the files it has written

vars == <<sessionId, srvNextTok, srvLogged, net, proc, now, batch, calc, search,
         dates, tools, sniff, judged, export>>
\* What the session, request and listing steps leave alone.
rest == <<now, batch, calc, search, dates, tools, sniff, judged, export>>

\* ------------------------------------------------------------ data shapes
Markers == {"user-login", "self.location", "<script>"}

\* A response body: a string (html) with the markers it contains, or a parsed
\* JSON envelope with its status and whether it carries a data field.
HtmlBodies == {[type |-> "html", markers |-> m, status |-> "", hasData |-> FALSE] :
                 m \in SUBSET Markers}
JsonBodies == {[type |-> "json", markers |-> {}, status |-> s, hasData |-> d] :
                 s \in {"success", "fail"}, d \in BOOLEAN}
Bodies == HtmlBodies \cup JsonBodies

\* Mutant of isSessionExpired: the markers are looked for in whatever the
\* body is, without the typeof test.
isSessionExpiredAnyType(body) ==
    \/ "user-login" \in body.markers
    \/ "self.location" \in body.markers
    \/ "<script>" \in body.markers

\* isSessionExpired(responseData)
isSessionExpired(body) ==
    IF body.type = "html"
    THEN \/ "user-login" \in body.markers
         \/ "self.location" \in body.markers
         \/ "<script>" \in body.markers
    ELSE FALSE

NoUrl == [path |-> "", browseType |-> "", param |-> 0, recPerPage |-> 0, page |-> 0]
NoData == [kind |-> "none", records |-> <<>>, keyed |-> FALSE, hasPager |-> FALSE,
           recTotal |-> 0, recPerPage |-> 0, link |-> 0]
PlainData == [NoData EXCEPT !.kind = "plain"]
\* postRequest returns response.data itself when the envelope has no data.
EnvelopeData == [NoData EXCEPT !.kind = "envelope"]
NoResult == [kind |-> "none", err |-> "", data |-> NoData, items |-> <<>>, tok |-> NoToken]

\* The backend's data behind one listing: n records (ids n..1, newest first),
\* those of status closed, the page size it serves, whether a page is sent
\* as a JSON object keyed by record id (or as an array), whether it reports
\* a pager and which total, and whether its pages never run empty.
NoCfg == [n |-> 0, per |-> 1, closed |-> {}, keyed |-> FALSE, pager |-> TRUE,
          total |-> "exact", endless |-> FALSE]

\* The state of a process that runs no operation.
IdleProc ==
    [op |-> "idle", pc |-> "idle",
     \* arguments of the operation
     status |-> "", moduleId |-> 0, cfg |-> NoCfg,
     \* request(url, params, retried) / postRequest(url, data, retried)
     verb |-> "GET", url |-> NoUrl, retried |-> FALSE, sid |-> NoToken,
     ctx |-> "",                 \* who called login(): "ensure" or "force"
     data |-> NoData,            \* what request() returned
     err |-> "",                 \* what was thrown
     \* history of the current top-level request() call
     sends |-> 0,                \* times the endpoint was sent
     renewals |-> 0,             \* calls of forceReLogin
     hist |-> <<>>,              \* classification of each endpoint response
     sentWith |-> <<>>,          \* the token each endpoint send carried
     calls |-> <<>>,             \* network calls made, in order
     issued |-> NoToken,         \* token the latest login()'s session-id call returned
     heldAtEntry |-> NoToken,    \* this.sessionId when the call was entered
     sessAns |-> <<>>,           \* answers to the calls of the latest login()
     served |-> NoData,          \* payload of the latest success envelope
     raised |-> {},              \* errors request() threw inside the operation
     \* paginated listings
     browseType |-> "", param |-> 0, currentPage |-> 0, all |-> <<>>,
     hasMore |-> FALSE,
     pageReqs |-> 0,             \* calls of request() made by the listing
     resolved |-> 0,             \* those that returned
     \* other public operations
     step |-> 0,
     story |-> NoData,           \* getStoryDetail: const story = data.story
     result |-> NoResult]

\* Positions at which a process is suspended on the network, or not running.
WaitingPcs == {"idle", "done", "awaitSid", "awaitLogin", "awaitEndpoint", "awaitImage"}
Running(p) == proc[p].pc \notin WaitingPcs
\* No process is inside synchronous code: the event loop is free.
LoopFree == \A q \in Procs : ~Running(q)

SidMsg(p) == [from |-> p, kind |-> "sid", sid |-> NoToken, url |-> NoUrl]
LoginMsg(p, sid) == [from |-> p, kind |-> "login", sid |-> sid, url |-> NoUrl]
EndpointMsg(p, sid, url) == [from |-> p, kind |-> "endpoint", sid |-> sid, url |-> url]

\* A DownloadedImage {url, success, error}; NoImage stands for a promise
\* that is not settled.
NoImage == [url |-> 0, success |-> FALSE, error |-> "unsettled"]
\* One call of downloadImageWithTimeout: its url, its timer, the value
\* Promise.race settled with, and what became of the transfer.
NoItem == [url |-> 0, timer |-> "unset", deadline |-> 0, race |-> NoImage,
           transfer |-> "none", inTime |-> FALSE]
\* No downloadImages call, no scoring, no searchStories call.
NoBatch == [pc |-> "none", parallel |-> TRUE, imageUrls |-> <<>>, items |-> <<>>,
            results |-> <<>>, out |-> <<>>, started |-> 0, returnedAt |-> 0]
NoCalc == [pc |-> "none"]
NoDates == [pc |-> "none"]
NoTools == [pc |-> "none"]
NoSniff == [pc |-> "none"]
NoJudged == [pc |-> "none"]
NoExport == [pc |-> "none"]
NoSearch == [pc |-> "none", kind |-> "", err |-> "", keyword |-> <<>>, keywords |-> <<>>,
             limit |-> 0, deepSearch |-> FALSE, listed |-> <<>>, scored |-> <<>>,
             candidates |-> <<>>, detailed |-> {}, out |-> <<>>,
             \* the walk over all products, when no productId is given
             walk |-> FALSE, products |-> <<>>, at |-> 0, fetched |-> <<>>]

TypeOK ==
    /\ sessionId \in 0..MaxTokens
    /\ srvNextTok \in 0..MaxTokens
    /\ srvLogged \subseteq 1..MaxTokens
    /\ \A m \in net : m.from \in Procs

Init ==
    /\ sessionId = NoToken
    /\ srvNextTok = 0
    /\ srvLogged = {}
    /\ net = {}
    /\ proc = [p \in Procs |-> IdleProc]
    /\ now = 0
    /\ batch = NoBatch
    /\ calc = NoCalc
    /\ search = NoSearch
    /\ dates = NoDates
    /\ tools = NoTools
    /\ sniff = NoSniff /\ judged = NoJudged /\ export = NoExport

\* ------------------------------------------------------ session lifecycle
\* Mutant of login: the POST is made with whatever is held, and no
\* /api-getSessionID.json call precedes it.
loginWithoutSessionId(p, r, held) ==
    /\ net' = net \cup {LoginMsg(p, held)}
    /\ proc' = [proc EXCEPT ![p] =
           [r EXCEPT !.pc = "awaitLogin", !.calls = Append(@, "login")]]

\* login(): const sid = await this.getSessionId().  getSessionId returns the
\* held token when there is one, and otherwise GETs /api-getSessionID.json;
\* with a token in hand login POSTs /user-login.json?zentaosid=<sid>.
\* `r` is the caller's record, `held` the value of this.sessionId on entry.
login(p, r, held) ==
    IF held # NoToken
    THEN /\ net' = net \cup {LoginMsg(p, held)}
         /\ proc' = [proc EXCEPT ![p] =
                [r EXCEPT !.pc = "awaitLogin", !.calls = Append(@, "login")]]
    ELSE /\ net' = net \cup {SidMsg(p)}
         /\ proc' = [proc EXCEPT ![p] =
                [r EXCEPT !.pc = "awaitSid", !.calls = Append(@, "sid")]]

\* Mutant of ensureLoggedIn: logs in even when a token is held.
ensureAlwaysLogin(p) ==
    /\ proc[p].pc = "ensure"
    /\ login(p, [proc[p] EXCEPT !.ctx = "ensure"], sessionId)
    /\ UNCHANGED <<sessionId, srvNextTok, srvLogged>>
    /\ UNCHANGED rest

\* ensureLoggedIn(): if (!this.sessionId) await this.login(); return this.sessionId
ensureLoggedIn(p) ==
    /\ proc[p].pc = "ensure"
    /\ IF sessionId # NoToken
       THEN /\ proc' = [proc EXCEPT ![p] =
                   [@ EXCEPT !.pc = "ensured", !.sid = sessionId]]
            /\ UNCHANGED net
       ELSE login(p, [proc[p] EXCEPT !.ctx = "ensure"], sessionId)
    /\ UNCHANGED <<sessionId, srvNextTok, srvLogged>>
    /\ UNCHANGED rest

\* Mutant of forceReLogin: the held token is not cleared before login().
forceReLoginKeep(p) ==
    /\ proc[p].pc = "force"
    /\ login(p, [proc[p] EXCEPT !.ctx = "force", !.renewals = @ + 1,
                                !.issued = NoToken, !.sessAns = <<>>], sessionId)
    /\ UNCHANGED <<sessionId, srvNextTok, srvLogged>>
    /\ UNCHANGED rest

\* forceReLogin(): this.sessionId = null; await this.login(); ...
forceReLogin(p) ==
    /\ proc[p].pc = "force"
    /\ sessionId' = NoToken
    /\ login(p, [proc[p] EXCEPT !.ctx = "force", !.renewals = @ + 1,
                                !.issued = NoToken, !.sessAns = <<>>], NoToken)
    /\ UNCHANGED <<srvNextTok, srvLogged>>
    /\ UNCHANGED rest

\* Mutant of sessionIdResponse: a token stored meanwhile by another call is
\* kept, and the identifier this call was given is not stored.
sessionIdResponseFirstWins(p, answers) ==
    /\ LoopFree
    /\ proc[p].pc = "awaitSid"
    /\ SidMsg(p) \in net
    /\ \E ans \in answers :
         CASE ans = "token" ->
                /\ srvNextTok < MaxTokens
                /\ srvNextTok' = srvNextTok + 1
                /\ sessionId' = IF sessionId # NoToken THEN sessionId
                                ELSE srvNextTok + 1
                /\ net' = (net \ {SidMsg(p)}) \cup {LoginMsg(p, srvNextTok + 1)}
                /\ proc' = [proc EXCEPT ![p] =
                       [@ EXCEPT !.pc = "awaitLogin", !.issued = srvNextTok + 1,
                                 !.sessAns = Append(@, ans),
                                 !.calls = Append(@, "login")]]
           [] ans = "absent" ->
                \* status success, but the payload holds no sessionID
                /\ sessionId' = NoToken
                /\ net' = (net \ {SidMsg(p)}) \cup {LoginMsg(p, NoToken)}
                /\ proc' = [proc EXCEPT ![p] =
                       [@ EXCEPT !.pc = "awaitLogin", !.issued = NoToken,
                                 !.sessAns = Append(@, ans),
                                 !.calls = Append(@, "login")]]
                /\ UNCHANGED srvNextTok
           [] OTHER ->
                \* non-success status or transport error: getSessionId throws
                /\ net' = net \ {SidMsg(p)}
                /\ proc' = [proc EXCEPT ![p] =
                       [@ EXCEPT !.pc = "threw", !.err = "SessionIdError",
                                 !.sessAns = Append(@, ans)]]
                /\ UNCHANGED <<sessionId, srvNextTok>>
    /\ UNCHANGED srvLogged
    /\ UNCHANGED rest

\* The answer of /api-getSessionID.json reaches getSessionId; on success
\* this.sessionId = data.sessionID and login() goes on to its POST.
sessionIdAnswer(p, answers, cap) ==
    /\ LoopFree
    /\ proc[p].pc = "awaitSid"
    /\ SidMsg(p) \in net
    /\ \E ans \in answers :
         CASE ans = "token" ->
                /\ srvNextTok < cap
                /\ srvNextTok' = srvNextTok + 1
                /\ sessionId' = srvNextTok + 1
                /\ net' = (net \ {SidMsg(p)}) \cup {LoginMsg(p, srvNextTok + 1)}
                /\ proc' = [proc EXCEPT ![p] =
                       [@ EXCEPT !.pc = "awaitLogin", !.issued = srvNextTok + 1,
                                 !.sessAns = Append(@, ans),
                                 !.calls = Append(@, "login")]]
           [] ans = "absent" ->
                \* status success, but the payload holds no sessionID
                /\ sessionId' = NoToken
                /\ net' = (net \ {SidMsg(p)}) \cup {LoginMsg(p, NoToken)}
                /\ proc' = [proc EXCEPT ![p] =
                       [@ EXCEPT !.pc = "awaitLogin", !.issued = NoToken,
                                 !.sessAns = Append(@, ans),
                                 !.calls = Append(@, "login")]]
                /\ UNCHANGED srvNextTok
           [] OTHER ->
                \* non-success status or transport error: getSessionId throws
                /\ net' = net \ {SidMsg(p)}
                /\ proc' = [proc EXCEPT ![p] =
                       [@ EXCEPT !.pc = "threw", !.err = "SessionIdError",
                                 !.sessAns = Append(@, ans)]]
                /\ UNCHANGED <<sessionId, srvNextTok>>
    /\ UNCHANGED srvLogged
    /\ UNCHANGED rest

\* The backend hands out at most MaxTokens identifiers.
sessionIdResponse(p, answers) == sessionIdAnswer(p, answers, MaxTokens)

\* What the caller of login() does once login() has returned normally.
afterLogin(r, held) ==
    IF r.ctx = "ensure"
    THEN \* ensureLoggedIn: return this.sessionId
         [r EXCEPT !.pc = "ensured", !.sid = held]
    ELSE \* forceReLogin: if (!this.sessionId) throw ...; return this.sessionId
         IF held = NoToken
         THEN [r EXCEPT !.pc = "threw", !.err = "ReloginAbsent"]
         ELSE [r EXCEPT !.pc = "renewed", !.sid = held]

\* The answer of the login POST reaches login().
loginResponse(p, answers) ==
    /\ LoopFree
    /\ proc[p].pc = "awaitLogin"
    /\ \E m \in net :
         /\ m.from = p /\ m.kind = "login"
         /\ net' = net \ {m}
         /\ \E ans \in answers :
              IF ans = "success"
              THEN /\ srvLogged' = srvLogged \cup ({m.sid} \ {NoToken})
                   /\ proc' = [proc EXCEPT ![p] =
                          afterLogin([@ EXCEPT !.sessAns = Append(@, ans)], sessionId)]
              ELSE /\ proc' = [proc EXCEPT ![p] =
                          [@ EXCEPT !.pc = "threw", !.err = "LoginError",
                                    !.sessAns = Append(@, ans)]]
                   /\ UNCHANGED srvLogged
    /\ UNCHANGED <<sessionId, srvNextTok>>
    /\ UNCHANGED rest

\* ------------------------------------------------- request / postRequest
\* A call of request(url, params) or postRequest(url, data) with retried =
\* false: the locals and the history of the call start afresh.
callRequest(r, verb, url, held) ==
    [r EXCEPT !.pc = "ensure", !.verb = verb, !.url = url, !.retried = FALSE,
              !.sid = NoToken, !.ctx = "", !.data = NoData, !.err = "",
              !.sends = 0, !.renewals = 0, !.hist = <<>>, !.sentWith = <<>>,
              !.calls = <<>>, !.issued = NoToken, !.heldAtEntry = held,
              !.sessAns = <<>>, !.served = NoData]

\* const fullUrl = `${url}?zentaosid=${sid}`; await this.client.get/post(fullUrl)
sendEndpoint(p) ==
    /\ proc[p].pc = "ensured"
    /\ proc[p].op # "ensureLoggedIn"
    /\ net' = net \cup {EndpointMsg(p, proc[p].sid, proc[p].url)}
    /\ proc' = [proc EXCEPT ![p] =
           [@ EXCEPT !.pc = "awaitEndpoint", !.sends = @ + 1,
                     !.sentWith = Append(@, proc[p].sid),
                     !.calls = Append(@, "endpoint")]]
    /\ UNCHANGED <<sessionId, srvNextTok, srvLogged>>
    /\ UNCHANGED rest

\* Mutant of retryRequest: the retry re-sends the url built before the
\* renewal, with the token of the first attempt.
retryRequestStale(p) ==
    /\ proc[p].pc = "renewed"
    /\ proc[p].op # "forceReLogin"
    /\ proc' = [proc EXCEPT ![p] =
           [@ EXCEPT !.pc = "ensured", !.retried = TRUE, !.sid = proc[p].sentWith[1]]]
    /\ UNCHANGED <<sessionId, srvNextTok, srvLogged, net>>
    /\ UNCHANGED rest

\* await this.forceReLogin(); return this.request(url, params, true)
retryRequest(p) ==
    /\ proc[p].pc = "renewed"
    /\ proc[p].op # "forceReLogin"
    /\ proc' = [proc EXCEPT ![p] = [@ EXCEPT !.pc = "ensure", !.retried = TRUE]]
    /\ UNCHANGED <<sessionId, srvNextTok, srvLogged, net>>
    /\ UNCHANGED rest

\* How request()/postRequest() sorts a response: "transport" is an axios
\* error, "expired" a body that isSessionExpired accepts.
classify(ans) ==
    IF ans.transport THEN "transport"
    ELSE IF isSessionExpired(ans.body) THEN "expired"
    ELSE IF ans.body.status = "success" THEN
         (IF ans.body.hasData THEN "success" ELSE "successNoData")
    ELSE "failed"

\* Mutant of onResponse: an expired response renews the session and retries
\* whether or not the call is already a retry.
onResponseAlwaysRenew(r, c, d) ==
    CASE c = "transport" -> [r EXCEPT !.pc = "threw", !.err = "Transport"]
      [] c = "expired" -> [r EXCEPT !.pc = "force"]
      [] c = "success" -> [r EXCEPT !.pc = "returned", !.data = d]
      [] c = "successNoData" ->
           IF r.verb = "GET"
           THEN [r EXCEPT !.pc = "threw", !.err = "ParseError"]
           ELSE [r EXCEPT !.pc = "returned", !.data = EnvelopeData]
      [] OTHER -> [r EXCEPT !.pc = "threw", !.err = "RequestFailed"]

\* The decision of request()/postRequest() on a response of class c; `d` is
\* the parsed payload of a success envelope.
onResponse(r, c, d) ==
    LET h == r IN
    CASE c = "transport" -> [h EXCEPT !.pc = "threw", !.err = "Transport"]
      [] c = "expired" ->
           IF ~r.retried
           THEN [h EXCEPT !.pc = "force"]
           ELSE [h EXCEPT !.pc = "threw", !.err = "SessionExpired"]
      [] c = "success" -> [h EXCEPT !.pc = "returned", !.data = d]
      [] c = "successNoData" ->
           \* request: JSON.parse(undefined) throws; postRequest: response.data
           IF r.verb = "GET"
           THEN [h EXCEPT !.pc = "threw", !.err = "ParseError"]
           ELSE [h EXCEPT !.pc = "returned", !.data = EnvelopeData]
      [] OTHER -> [h EXCEPT !.pc = "threw", !.err = "RequestFailed"]

\* What comes back for a call: a body, or an axios error without one.
NoBody == [type |-> "none", markers |-> {}, status |-> "", hasData |-> FALSE]
Answers == {[transport |-> FALSE, body |-> b] : b \in Bodies}
           \cup {[transport |-> TRUE, body |-> NoBody]}

\* ---------------------------------------------------------------- backend
\* Math.ceil(recTotal / recPerPage), for recPerPage > 0
CeilDiv(a, b) == (a + b - 1) \div b

RecordOf(cfg, id) ==
    [id |-> id, status |-> IF id \in cfg.closed THEN "closed" ELSE "active"]

\* The records of the listing, in server order (orderBy id_desc).
Dataset(cfg) == [j \in 1..cfg.n |-> RecordOf(cfg, cfg.n - j + 1)]

\* The records the backend selects for a browseType: one selector at a time.
Selected(cfg, browseType) ==
    LET Keep(rec) ==
          CASE browseType = "byModule" -> TRUE
            [] browseType = "all" -> TRUE
            [] browseType = "unclosed" -> rec.status # "closed"
            [] OTHER -> rec.status = browseType
    IN SelectSeq(Dataset(cfg), Keep)

\* The records of page `page` of the selection; an endless backend wraps
\* around instead of running out of records.
PageRecords(cfg, browseType, page) ==
    LET sel == Selected(cfg, browseType)
        n == Len(sel)
        lo == (page - 1) * cfg.per + 1
        hi == page * cfg.per
    IN IF cfg.endless /\ n > 0
       THEN [i \in 1..cfg.per |-> sel[((lo + i - 2) % n) + 1]]
       ELSE IF lo > n THEN <<>>
       ELSE SubSeq(sel, lo, IF hi < n THEN hi ELSE n)

\* The recTotal of the pager: exact for a consistent backend.
ReportedTotal(cfg, browseType) ==
    LET n == Len(Selected(cfg, browseType)) IN
    CASE cfg.total = "exact" -> n
      [] cfg.total = "zero" -> 0
      [] cfg.total = "over" -> n + cfg.per
      [] OTHER -> (MaxPages + 1) * cfg.per

PagePayload(cfg, url) ==
    [kind |-> "page", records |-> PageRecords(cfg, url.browseType, url.page),
     keyed |-> cfg.keyed, hasPager |-> cfg.pager,
     recTotal |-> IF cfg.pager THEN ReportedTotal(cfg, url.browseType) ELSE 0,
     recPerPage |-> IF cfg.pager THEN cfg.per ELSE 0, link |-> 0]

TestCaseRecord == [id |-> 1, status |-> "normal"]

\* The payloads the backend may put in a success envelope for a url.
ServerData(cfg, url) ==
    CASE url.page > 0 -> {PagePayload(cfg, url)}
      [] url.path = "bug-view" ->
           \* data.bug.story: absent, or the id of the story
           {[NoData EXCEPT !.kind = "bug", !.link = l] : l \in {0, 1}}
      [] url.path = "story-view" ->
           \* data.story.module/product set or not; data.cases
           {[NoData EXCEPT !.kind = "story", !.link = l, !.records = c] :
              l \in {0, 1}, c \in {<<>>, <<TestCaseRecord>>}}
      [] url.path \in {"product-browse", "story-create"} ->
           \* data.modules / data.moduleTree: empty or not
           {[NoData EXCEPT !.kind = "modules", !.link = l] : l \in {0, 1}}
      [] OTHER -> {PlainData}

\* Mutant of endpointResponse: a response that is neither expired nor a
\* success is handled like an expired one.
endpointResponseRenewsOnFailure(p, answers) ==
    /\ LoopFree
    /\ proc[p].pc = "awaitEndpoint"
    /\ \E m \in net :
         /\ m.from = p /\ m.kind = "endpoint"
         /\ net' = net \ {m}
         /\ \E ans \in answers, d \in ServerData(proc[p].cfg, m.url) :
              proc' = [proc EXCEPT ![p] =
                  onResponse([@ EXCEPT !.hist = Append(@, classify(ans)),
                                       !.served = IF classify(ans) = "success"
                                                  THEN d ELSE @],
                             IF classify(ans) = "failed" THEN "expired"
                             ELSE classify(ans), d)]
    /\ UNCHANGED <<sessionId, srvNextTok, srvLogged>>
    /\ UNCHANGED rest

\* The answer to the endpoint reaches request()/postRequest().
endpointResponse(p, answers) ==
    /\ LoopFree
    /\ proc[p].pc = "awaitEndpoint"
    /\ \E m \in net :
         /\ m.from = p /\ m.kind = "endpoint"
         /\ net' = net \ {m}
         /\ \E ans \in answers, d \in ServerData(proc[p].cfg, m.url) :
              proc' = [proc EXCEPT ![p] =
                  onResponse([@ EXCEPT !.hist = Append(@, classify(ans)),
                                       !.served = IF classify(ans) = "success"
                                                  THEN d ELSE @],
                             classify(ans), d)]
    /\ UNCHANGED <<sessionId, srvNextTok, srvLogged>>
    /\ UNCHANGED rest

\* The backend answers as it pleases: it may refuse, fail or expire a session
\* at any call.
SessionIdResponse(p) == sessionIdResponse(p, {"token", "absent", "fail", "transport"})
LoginResponse(p) == loginResponse(p, {"success", "fail", "transport"})
EndpointResponse(p) == endpointResponse(p, Answers)

\* A backend whose login works (it still runs out of session identifiers and
\* still answers the endpoints as it pleases).
SessionIdGranted(p) == sessionIdResponse(p, {"token", "fail"})
LoginAccepted(p) == loginResponse(p, {"success"})

\* ------------------------------------------------------------- operations
CanStart(p) == LoopFree /\ proc[p].pc = "idle"

\* The caller has the result (or the error) of its operation in hand.
Finished(p) ==
    /\ proc[p].pc = "done"
    /\ proc' = [proc EXCEPT ![p] = IdleProc]
    /\ UNCHANGED <<sessionId, srvNextTok, srvLogged, net>>
    /\ UNCHANGED rest

\* A caller invokes ensureLoggedIn() or forceReLogin() on its own.
StartSessionOp(p) ==
    /\ CanStart(p)
    /\ \E op \in {"ensureLoggedIn", "forceReLogin"} :
         proc' = [proc EXCEPT ![p] =
             [IdleProc EXCEPT !.op = op, !.heldAtEntry = sessionId,
                              !.pc = IF op = "ensureLoggedIn" THEN "ensure" ELSE "force"]]
    /\ UNCHANGED <<sessionId, srvNextTok, srvLogged, net>>
    /\ UNCHANGED rest

\* ensureLoggedIn()/forceReLogin() called on its own returns or throws.
SessionOpReturn(p) ==
    /\ \/ proc[p].op = "ensureLoggedIn" /\ proc[p].pc \in {"ensured", "threw"}
       \/ proc[p].op = "forceReLogin" /\ proc[p].pc \in {"renewed", "threw"}
    /\ proc' = [proc EXCEPT ![p] =
           [@ EXCEPT !.pc = "done",
                     !.result = IF proc[p].pc = "threw"
                                THEN [NoResult EXCEPT !.kind = "err", !.err = proc[p].err]
                                ELSE [NoResult EXCEPT !.kind = "ok", !.tok = proc[p].sid]]]
    /\ UNCHANGED <<sessionId, srvNextTok, srvLogged, net>>
    /\ UNCHANGED rest

\* A caller invokes request(url, params) or postRequest(url, data).
StartRequest(p) ==
    /\ CanStart(p)
    /\ \E verb \in {"GET", "POST"} :
         proc' = [proc EXCEPT ![p] =
             callRequest([IdleProc EXCEPT !.op = IF verb = "GET" THEN "request"
                                                ELSE "postRequest"],
                         verb, [NoUrl EXCEPT !.path = "any"], sessionId)]
    /\ UNCHANGED <<sessionId, srvNextTok, srvLogged, net>>
    /\ UNCHANGED rest

\* request()/postRequest() returns its payload or throws to the caller.
RequestReturn(p) ==
    /\ proc[p].op \in {"request", "postRequest"}
    /\ proc[p].pc \in {"returned", "threw"}
    /\ proc' = [proc EXCEPT ![p] =
           [@ EXCEPT !.pc = "done",
                     !.result = IF proc[p].pc = "threw"
                                THEN [NoResult EXCEPT !.kind = "err", !.err = proc[p].err]
                                ELSE [NoResult EXCEPT !.kind = "ok", !.data = proc[p].data]]]
    /\ UNCHANGED <<sessionId, srvNextTok, srvLogged, net>>
    /\ UNCHANGED rest

\* ------------------------------------------------------ paginated listings
PagedOps == {"getProductStories", "getProductBugs", "getProductTestCases"}

ListPath(op) ==
    CASE op = "getProductStories" -> "product-browse"
      [] op = "getProductBugs" -> "bug-browse"
      [] OTHER -> "testcase-browse"

\* The browseType of the listing url: 'byModule' when a moduleId is given;
\* otherwise getProductStories always browses 'unclosed', while
\* getProductBugs/getProductTestCases browse the status, or 'all'.
browseTypeOf(op, status, moduleId) ==
    IF moduleId # 0 THEN "byModule"
    ELSE IF op = "getProductStories" THEN "unclosed"
    ELSE IF status # "" /\ status # "all" THEN status
    ELSE "all"

\* The param of the listing url: the module id, or 0.
paramOf(moduleId) == IF moduleId # 0 THEN moduleId ELSE 0

pageUrl(r) ==
    [path |-> ListPath(r.op), browseType |-> r.browseType, param |-> r.param,
     recPerPage |-> PageSize, page |-> r.currentPage]

\* The records of a set, by ascending id.
RECURSIVE AscendingById(_)
AscendingById(S) ==
    IF S = {} THEN <<>>
    ELSE LET m == CHOOSE x \in S : \A y \in S : x.id <= y.id
         IN <<m>> \o AscendingById(S \ {m})

\* Object.values(data.stories || {}): the elements of an array in index
\* order; the values of an object keyed by record id in ascending key order.
objectValues(d) ==
    IF d.keyed THEN AscendingById({d.records[i] : i \in 1..Len(d.records)})
    ELSE d.records

\* Mutant of hasMoreAfter: an empty page does not end the listing.
hasMoreIgnoringEmpty(currentPage, d) ==
    IF d.hasPager THEN currentPage < CeilDiv(d.recTotal, d.recPerPage) ELSE FALSE

\* hasMore after a page: currentPage < totalPages && array.length > 0 when
\* the response has a pager, false when it has none.
hasMoreAfter(currentPage, d) ==
    IF d.hasPager
    THEN currentPage < CeilDiv(d.recTotal, d.recPerPage) /\ Len(objectValues(d)) > 0
    ELSE FALSE

\* Mutant of nextPage: a page is skipped.
nextPageSkips(currentPage) == currentPage + 2

\* currentPage++
nextPage(currentPage) == currentPage + 1

\* Mutant of pastCap: the cap is one page late.
pastCapLate(currentPage) == currentPage > MaxPages + 1

\* if (currentPage > 100) break
pastCap(currentPage) == currentPage > MaxPages

\* Mutant of localFilter: no local filter.
localFilterNone(r, items) == items

\* if (moduleId && status && status !== 'all') filter(x => x.status === status)
localFilter(r, items) ==
    LET Keep(rec) == rec.status = r.status IN
    IF r.moduleId # 0 /\ r.status # "" /\ r.status # "all"
    THEN SelectSeq(items, Keep)
    ELSE items

\* request() threw inside the operation: remember what was thrown.
note(r) == IF r.pc = "threw" THEN [r EXCEPT !.raised = @ \cup {r.err}] ELSE r

finish(r, res) == [r EXCEPT !.pc = "done", !.result = res]
Threw(r) == [NoResult EXCEPT !.kind = "err", !.err = r.err]
Items(items) == [NoResult EXCEPT !.kind = "ok", !.items = items]

\* A caller invokes getProductStories/getProductBugs/getProductTestCases
\* (productId, status, moduleId) against a listing of the backend; the
\* operation runs up to the request of page 1.
startPaged(p, cfgs, statuses, modules) ==
    /\ CanStart(p)
    /\ \E op \in PagedOps, status \in statuses, moduleId \in modules, cfg \in cfgs :
         proc' = [proc EXCEPT ![p] =
           LET r == [IdleProc EXCEPT !.op = op, !.status = status,
                                     !.moduleId = moduleId, !.cfg = cfg,
                                     !.browseType = browseTypeOf(op, status, moduleId),
                                     !.param = paramOf(moduleId),
                                     !.currentPage = 1, !.hasMore = TRUE,
                                     !.pageReqs = 1]
           IN callRequest(r, "GET", pageUrl(r), sessionId)]
    /\ UNCHANGED <<sessionId, srvNextTok, srvLogged, net>>
    /\ UNCHANGED rest

\* The body of the while (hasMore) loop after `await this.request(url)`:
\* the page is appended, hasMore and currentPage are updated, and the loop
\* either requests the next page or ends and the list is mapped and filtered.
PageReturned(p) ==
    /\ proc[p].op \in PagedOps
    /\ proc[p].pc = "returned"
    /\ LET r == proc[p]
           all == r.all \o objectValues(r.data)
           more == hasMoreAfter(r.currentPage, r.data)
           cur == nextPage(r.currentPage)
           r1 == [r EXCEPT !.all = all, !.hasMore = more, !.currentPage = cur,
                           !.resolved = @ + 1]
       IN proc' = [proc EXCEPT ![p] =
            IF more /\ ~pastCap(cur)
            THEN callRequest([r1 EXCEPT !.pageReqs = @ + 1], "GET", pageUrl(r1), sessionId)
            ELSE finish(r1, Items(localFilter(r1, all)))]
    /\ UNCHANGED <<sessionId, srvNextTok, srvLogged, net>>
    /\ UNCHANGED rest

\* Mutant of PageThrew: the pages fetched so far are returned.
PageThrewSalvage(p) ==
    /\ proc[p].op \in PagedOps
    /\ proc[p].pc = "threw"
    /\ proc' = [proc EXCEPT ![p] = finish(note(@), Items(localFilter(@, @.all)))]
    /\ UNCHANGED <<sessionId, srvNextTok, srvLogged, net>>
    /\ UNCHANGED rest

\* `await this.request(url)` threw inside the loop: nothing catches it but
\* the catch { throw error } of getProductBugs/getProductTestCases.
PageThrew(p) ==
    /\ proc[p].op \in PagedOps
    /\ proc[p].pc = "threw"
    /\ proc' = [proc EXCEPT ![p] = finish(note(@), Threw(@))]
    /\ UNCHANGED <<sessionId, srvNextTok, srvLogged, net>>
    /\ UNCHANGED rest

\* --------------------------------------------------- other public operations
ViewOps == {"getStoryTestCases", "getBugDetail", "getStoryDetail",
            "getBugRelatedStory", "getProductModules"}

PathUrl(path) == [NoUrl EXCEPT !.path = path]

\* The first request of each operation, and its position (step) in it:
\* 1 bug-view, 2 story-view, 3 and 4 the two paths of getProductModules.
FirstStep(op) ==
    CASE op \in {"getBugDetail", "getBugRelatedStory"} -> 1
      [] op \in {"getStoryDetail", "getStoryTestCases"} -> 2
      [] OTHER -> 3

StepPath(step) ==
    CASE step = 1 -> "bug-view"
      [] step = 2 -> "story-view"
      [] step = 3 -> "product-browse"
      [] OTHER -> "story-create"

StartView(p) ==
    /\ CanStart(p)
    /\ \E op \in ViewOps :
         proc' = [proc EXCEPT ![p] =
             callRequest([IdleProc EXCEPT !.op = op, !.step = FirstStep(op)],
                         "GET", PathUrl(StepPath(FirstStep(op))), sessionId)]
    /\ UNCHANGED <<sessionId, srvNextTok, srvLogged, net>>
    /\ UNCHANGED rest

Value(kind, d) == [NoResult EXCEPT !.kind = kind, !.data = d]

\* getProductModules: for (const apiPath of paths) { try { request; if
\* (modules non-empty) return modules } catch { continue } } return {}.
\* `onEnd` is what the caller gets once both paths are used up.
modulesStep(r, held, found, onEnd) ==
    IF r.pc = "returned" /\ r.data.link # 0 THEN finish(r, found)
    ELSE IF r.step = 3
    THEN callRequest([note(r) EXCEPT !.step = 4], "GET", PathUrl(StepPath(4)), held)
    ELSE finish(note(r), onEnd)

\* getStoryDetail after its story-view request: with a module and a product
\* it asks getProductModules for the module name, inside try/catch.
storyDetailStep(r, held) ==
    IF r.data.link # 0
    THEN callRequest([r EXCEPT !.step = 3, !.story = r.data], "GET",
                     PathUrl(StepPath(3)), held)
    ELSE finish(r, Value("ok", r.data))

\* getStoryTestCases: try { request; return mapped cases } catch { return [] }
StoryTestCasesReturn(p) ==
    /\ proc[p].op = "getStoryTestCases"
    /\ proc[p].pc \in {"returned", "threw"}
    /\ proc' = [proc EXCEPT ![p] =
           IF @.pc = "returned" THEN finish(@, Items(objectValues(@.data)))
           ELSE finish(note(@), Items(<<>>))]
    /\ UNCHANGED <<sessionId, srvNextTok, srvLogged, net>>
    /\ UNCHANGED rest

\* getBugDetail: no try/catch around its request
BugDetailReturn(p) ==
    /\ proc[p].op = "getBugDetail"
    /\ proc[p].pc \in {"returned", "threw"}
    /\ proc' = [proc EXCEPT ![p] =
           IF @.pc = "returned" THEN finish(@, Value("ok", @.data))
           ELSE finish(note(@), Threw(@))]
    /\ UNCHANGED <<sessionId, srvNextTok, srvLogged, net>>
    /\ UNCHANGED rest

\* getProductModules called by a caller: the modules found, or {}
ProductModulesStep(p) ==
    /\ proc[p].op = "getProductModules"
    /\ proc[p].pc \in {"returned", "threw"}
    /\ proc' = [proc EXCEPT ![p] =
           modulesStep(@, sessionId, Value("ok", @.data), Value("empty", NoData))]
    /\ UNCHANGED <<sessionId, srvNextTok, srvLogged, net>>
    /\ UNCHANGED rest

\* The story getStoryDetail returns: link 2 marks a resolved moduleName.
Story(r, named) == Value("ok", IF named THEN [r.story EXCEPT !.link = 2] ELSE r.story)

\* getStoryDetail: its story-view request is not guarded; the module-name
\* lookup is, and getProductModules swallows its own failures.
StoryDetailStep(p) ==
    /\ proc[p].op = "getStoryDetail"
    /\ proc[p].pc \in {"returned", "threw"}
    /\ proc' = [proc EXCEPT ![p] =
           IF @.step = 2
           THEN (IF @.pc = "threw" THEN finish(note(@), Threw(@))
                 ELSE storyDetailStep(@, sessionId))
           ELSE modulesStep(@, sessionId, Story(@, TRUE), Story(@, FALSE))]
    /\ UNCHANGED <<sessionId, srvNextTok, srvLogged, net>>
    /\ UNCHANGED rest

\* getBugRelatedStory: try { bug = getBugDetail; if (!bug.story) return null;
\* return await getStoryDetail(storyId) } catch { return null }
BugRelatedStoryStep(p) ==
    /\ proc[p].op = "getBugRelatedStory"
    /\ proc[p].pc \in {"returned", "threw"}
    /\ proc' = [proc EXCEPT ![p] =
           IF @.step \in {1, 2} /\ @.pc = "threw"
           THEN finish(note(@), Value("null", NoData))
           ELSE IF @.step = 1
           THEN (IF @.data.link = 0 THEN finish(@, Value("null", NoData))
                 ELSE callRequest([@ EXCEPT !.step = 2], "GET",
                                  PathUrl(StepPath(2)), sessionId))
           ELSE IF @.step = 2 THEN storyDetailStep(@, sessionId)
           ELSE modulesStep(@, sessionId, Story(@, TRUE), Story(@, FALSE))]
    /\ UNCHANGED <<sessionId, srvNextTok, srvLogged, net>>
    /\ UNCHANGED rest

\* ------------------------------------------------------------ listing data
Statuses == {"", "all", "closed"}
Modules == {0, 7}

\* Small listings: every split into closed and active records behind a
\* consistent pager, and every way the pager can be missing or wrong.
SmallCfgs ==
    {cfg \in [n : 0..MaxRecords, per : 1..MaxPerPage, closed : SUBSET (1..MaxRecords),
              keyed : BOOLEAN, pager : {TRUE}, total : {"exact"}, endless : {FALSE}] :
       /\ cfg.closed \subseteq 1..cfg.n
       \* the two encodings differ only for a page of several records
       /\ cfg.keyed => (cfg.n >= 2 /\ cfg.per >= 2)}

\* Small listings whose pager is missing, reports no records or too many.
OddCfgs ==
    {cfg \in [n : 0..MaxRecords, per : 1..MaxPerPage, closed : {{}},
              keyed : {FALSE}, pager : BOOLEAN, total : {"exact", "zero", "over"}, endless : {FALSE}] :
       cfg.pager = (cfg.total # "exact")}

\* Listings that reach the page cap: MaxPages pages exactly, one page more,
\* and a backend whose pages never run empty and whose total is beyond the
\* cap; and the listing of 250 records in pages of 100.
LongCfgs ==
    {[NoCfg EXCEPT !.n = MaxPages, !.per = 1],
     [NoCfg EXCEPT !.n = MaxPages + 1, !.per = 1],
     [NoCfg EXCEPT !.n = 2, !.per = 2, !.total = "beyond", !.endless = TRUE],
     [NoCfg EXCEPT !.n = 250, !.per = PageSize]}

StartPaged(p) == startPaged(p, SmallCfgs, Statuses, Modules)
StartPagedOdd(p) == startPaged(p, OddCfgs, {""}, {0})
StartPagedLong(p) == startPaged(p, LongCfgs, {""}, {0})

\* Listings whose pager reports far more pages than the backend has records
\* for: the pages run empty while the pager still promises more.
StaleCfgs ==
    {[NoCfg EXCEPT !.n = 0, !.per = 1, !.total = "beyond"],
     [NoCfg EXCEPT !.n = 2, !.per = 2, !.total = "beyond"],
     [NoCfg EXCEPT !.n = 2, !.per = 1, !.total = "beyond"]}
StartPagedStale(p) == startPaged(p, StaleCfgs, {""}, {0})

\* ---------------------------------------------------------- specification
\* The steps of the session lifecycle and of request()/postRequest().
SessionStep(p) ==
    \/ ensureLoggedIn(p)
    \/ forceReLogin(p)
    \/ SessionIdResponse(p)
    \/ LoginResponse(p)
    \/ sendEndpoint(p)
    \/ retryRequest(p)
    \/ EndpointResponse(p)

\* One caller at a time: session operations, requests, view operations.
Next ==
    \E p \in Callers :
       \/ SessionStep(p)
       \/ Finished(p)
       \/ StartSessionOp(p)
       \/ SessionOpReturn(p)
       \/ StartRequest(p)
       \/ RequestReturn(p)
       \/ StartView(p)
       \/ StoryTestCasesReturn(p)
       \/ BugDetailReturn(p)
       \/ ProductModulesStep(p)
       \/ StoryDetailStep(p)
       \/ BugRelatedStoryStep(p)

Spec == Init /\ [][Next]_vars

\* One caller at a time: the paginated listings.
NextPaging ==
    \E p \in Callers :
       \/ SessionStep(p)
       \/ Finished(p)
       \/ StartPaged(p)
       \/ StartPagedOdd(p)
       \/ PageReturned(p)
       \/ PageThrew(p)

SpecPaging == Init /\ [][NextPaging]_vars

\* One caller at a time: the listings that reach the page cap, against a
\* backend whose login works.
NextCap ==
    \E p \in Callers :
       \/ ensureLoggedIn(p)
       \/ forceReLogin(p)
       \/ SessionIdGranted(p)
       \/ LoginAccepted(p)
       \/ sendEndpoint(p)
       \/ retryRequest(p)
       \/ EndpointResponse(p)
       \/ Finished(p)
       \/ StartPaged(p)
       \/ StartPagedOdd(p)
       \/ StartPagedLong(p)
       \/ PageReturned(p)
       \/ PageThrew(p)

SpecCap == Init /\ [][NextCap]_vars

\* One caller at a time: the listings on which the loop stops for each of
\* its reasons (no pager, last page of the pager, an empty page, the cap),
\* against a backend whose login works.
NextStop ==
    \E p \in Callers :
       \/ ensureLoggedIn(p)
       \/ forceReLogin(p)
       \/ SessionIdGranted(p)
       \/ LoginAccepted(p)
       \/ sendEndpoint(p)
       \/ retryRequest(p)
       \/ EndpointResponse(p)
       \/ Finished(p)
       \/ StartPagedOdd(p)
       \/ StartPagedLong(p)
       \/ StartPagedStale(p)
       \/ PageReturned(p)
       \/ PageThrew(p)

SpecStop == Init /\ [][NextStop]_vars

\* Two callers on the same client at once, against a backend whose login
\* works: each may be suspended on a network call of its own while the other
\* runs.
Concurrent == {1, 2}

NextConcurrent ==
    \E p \in Concurrent :
       \/ ensureLoggedIn(p)
       \/ forceReLogin(p)
       \/ SessionIdGranted(p)
       \/ LoginAccepted(p)
       \/ sendEndpoint(p)
       \/ retryRequest(p)
       \/ EndpointResponse(p)
       \/ Finished(p)
       \/ StartSessionOp(p)
       \/ SessionOpReturn(p)
       \/ StartRequest(p)
       \/ RequestReturn(p)

SpecConcurrent == Init /\ [][NextConcurrent]_vars

\* A backend that accepts every identifier whose login POST has succeeded,
\* for good, and answers every other with the login page.  Its login always
\* works; it hands out at most MaxIssued identifiers.
MaxIssued == 3
SessionIdIssued(p) == sessionIdAnswer(p, {"token"}, MaxIssued)

LoginPage == [transport |-> FALSE,
              body |-> [type |-> "html", markers |-> {"user-login", "self.location"},
                        status |-> "", hasData |-> FALSE]]
Served == [transport |-> FALSE,
           body |-> [type |-> "json", markers |-> {}, status |-> "success",
                     hasData |-> TRUE]]

\* The answer of that backend to an endpoint reaches request()/postRequest().
StableEndpointResponse(p) ==
    /\ LoopFree
    /\ proc[p].pc = "awaitEndpoint"
    /\ \E m \in net :
         /\ m.from = p /\ m.kind = "endpoint"
         /\ net' = net \ {m}
         /\ LET ans == IF m.sid \in srvLogged THEN Served ELSE LoginPage IN
            \E d \in ServerData(proc[p].cfg, m.url) :
              proc' = [proc EXCEPT ![p] =
                  onResponse([@ EXCEPT !.hist = Append(@, classify(ans)),
                                       !.served = IF classify(ans) = "success"
                                                  THEN d ELSE @],
                             classify(ans), d)]
    /\ UNCHANGED <<sessionId, srvNextTok, srvLogged>>
    /\ UNCHANGED rest

\* Two callers of request()/postRequest() at once against that backend.
NextStable ==
    \E p \in Concurrent :
       \/ ensureLoggedIn(p)
       \/ forceReLogin(p)
       \/ SessionIdIssued(p)
       \/ LoginAccepted(p)
       \/ sendEndpoint(p)
       \/ retryRequest(p)
       \/ StableEndpointResponse(p)
       \/ Finished(p)
       \/ StartRequest(p)
       \/ RequestReturn(p)

SpecStable == Init /\ [][NextStable]_vars

\* ------------------------------------------------------------------ claims
Last(seq) == seq[Len(seq)]
SessionErrors == {"SessionIdError", "LoginError", "ReloginAbsent", "SessionExpired"}
RequestOps == {"request", "postRequest"}

\* C1: in one request()/postRequest() call of a single caller, a first
\* response classified expired followed by a success envelope means exactly
\* one forceReLogin, a retry that carries the token issued by that renewal,
\* and the success payload as the result; a first and a second response both
\* classified expired mean one renewal and the session error, without payload.
C1_ExpiredThenRetriedOnce ==
    \A p \in Callers :
      LET r == proc[p] IN
      (Len(r.hist) >= 2 /\ r.hist[1] = "expired") =>
        /\ r.hist[2] = "success" =>
             /\ r.renewals = 1 /\ r.sends = 2
             /\ r.issued # NoToken
             /\ r.sentWith[2] = r.issued
             /\ r.sentWith[2] # r.sentWith[1]
             /\ r.data = r.served /\ r.served # NoData
             /\ r.pc \in {"returned", "done"}
             /\ (r.pc = "done" /\ r.op \in RequestOps) =>
                   r.result.kind = "ok" /\ r.result.data = r.served
        /\ r.hist[2] = "expired" =>
             /\ r.renewals = 1 /\ r.sends = 2
             /\ r.data = NoData
             /\ r.err = "SessionExpired"
             /\ r.pc \in {"threw", "done"}
             /\ (r.pc = "done" /\ r.op \in RequestOps) =>
                   /\ r.result.kind = "err"
                   /\ r.result.err = "SessionExpired" /\ r.result.data = NoData

C1_Witness ==
    \E p \in Callers :
      /\ proc[p].op = "request" /\ proc[p].pc = "done"
      /\ proc[p].hist = <<"expired", "success">>
      /\ proc[p].result.kind = "ok"

\* C2: whatever the backend answers, one request()/postRequest() call sends
\* its endpoint at most twice and calls forceReLogin at most once.
C2_AtMostOneRetry ==
    \A p \in Callers :
      /\ proc[p].sends <= 2
      /\ proc[p].renewals <= 1
      /\ Len(proc[p].hist) <= 2

C2_Witness ==
    \E p \in Callers :
      /\ proc[p].op = "postRequest" /\ proc[p].pc = "threw"
      /\ proc[p].sends = 2 /\ proc[p].renewals = 1
      /\ proc[p].err = "SessionExpired"

\* The first ensureLoggedIn() of a call has returned / has thrown.
EnsureReturned(r) == r.pc = "ensured" /\ ~r.retried /\ r.renewals = 0
EnsureThrew(r) == r.pc = "threw" /\ r.hist = <<>> /\ r.renewals = 0

\* C3: ensureLoggedIn returns a held token without any network call; with no
\* token held it makes the session-id call, then the login POST, and returns
\* the token the session-id call issued; when one of the two calls fails it
\* throws and returns no token.
C3_EnsureLoggedIn ==
    \A p \in Callers :
      LET r == proc[p] IN
      /\ (EnsureReturned(r) /\ r.heldAtEntry # NoToken) =>
            r.calls = <<>> /\ r.sid = r.heldAtEntry
      /\ (EnsureReturned(r) /\ r.heldAtEntry = NoToken) =>
            /\ r.calls = <<"sid", "login">>
            /\ r.sessAns \in {<<"token", "success">>, <<"absent", "success">>}
            /\ r.sid = r.issued
      /\ (r.renewals = 0 /\ r.sessAns # <<>> /\ Last(r.sessAns) \in {"fail", "transport"}) =>
            /\ r.sid = NoToken
            /\ r.pc \in {"threw", "done"}
            /\ r.pc = "threw" => r.err \in {"SessionIdError", "LoginError"}
            /\ (r.pc = "done" /\ r.op = "ensureLoggedIn") =>
                  r.result.kind = "err" /\ r.result.tok = NoToken
      /\ (r.op = "ensureLoggedIn" /\ r.pc = "done" /\ r.result.kind = "ok") =>
            r.result.tok = sessionId

C3_Witness ==
    \E p \in Callers :
      /\ proc[p].op = "ensureLoggedIn" /\ proc[p].pc = "done"
      /\ proc[p].heldAtEntry = NoToken
      /\ proc[p].result.kind = "ok" /\ proc[p].result.tok # NoToken

\* C4: forceReLogin makes the session-id call and the login POST whether or
\* not a token was held; when it returns, the held token is the one that
\* session-id call issued, and it is not the token held before; when the
\* session-id call issued no token it throws.
C4_ForceReLogin ==
    \A p \in Callers :
      LET r == proc[p] IN
      /\ r.pc = "renewed" =>
            /\ Len(r.calls) >= 2
            /\ SubSeq(r.calls, Len(r.calls) - 1, Len(r.calls)) = <<"sid", "login">>
            /\ r.issued # NoToken
            /\ sessionId = r.issued
            /\ r.sid = r.issued
            /\ r.issued # r.heldAtEntry
      /\ (r.ctx = "force" /\ r.sessAns = <<"absent", "success">>) =>
            \/ r.pc = "threw" /\ r.err = "ReloginAbsent"
            \/ /\ r.pc = "done"
               /\ r.op = "forceReLogin" =>
                     r.result.kind = "err" /\ r.result.err = "ReloginAbsent"
      /\ (r.op = "forceReLogin" /\ r.pc = "done" /\ r.result.kind = "ok") =>
            r.result.tok = sessionId /\ r.result.tok = r.issued /\ r.issued # NoToken

C4_Witness ==
    \E p \in Callers :
      /\ proc[p].op = "forceReLogin" /\ proc[p].pc = "renewed"
      /\ proc[p].heldAtEntry # NoToken

\* C5: a session failure raised inside a public operation reaches the caller
\* of the operation as an error, never as an empty, null or partial result.
C5_SessionFailurePropagates ==
    \A p \in Callers :
      (proc[p].pc = "done" /\ proc[p].raised \cap SessionErrors # {}) =>
         proc[p].result.kind = "err"

\* The records the backend holds for the selector of r, in server order, and
\* a backend that pages them consistently.
Wanted(r) == Selected(r.cfg, r.browseType)
Consistent(cfg) == cfg.pager /\ cfg.total = "exact" /\ ~cfg.endless
Max(a, b) == IF a >= b THEN a ELSE b
NoLocalFilter(r) == r.moduleId = 0 \/ r.status \in {"", "all"}

\* C6: against a consistent backend with N records for the selector, pager
\* (N, P) and N <= 100 * P, a listing returns exactly those N records, the
\* pages concatenated in server order, after exactly max(1, ceil(N / P))
\* page requests.
C6_ConsistentListing ==
    \A p \in Callers :
      LET r == proc[p]
          N == Len(Wanted(r))
      IN (/\ r.op \in PagedOps /\ r.pc = "done" /\ r.result.kind = "ok"
          /\ Consistent(r.cfg) /\ N <= MaxPages * r.cfg.per) =>
            /\ r.all = Wanted(r)
            /\ NoLocalFilter(r) => r.result.items = Wanted(r)
            /\ r.pageReqs = Max(1, CeilDiv(N, r.cfg.per))

\* C7: whatever pager and pages the backend reports, one listing makes at
\* most 100 page requests, and has returned once page 100 is in.
C7_PageCap ==
    \A p \in Callers :
      LET r == proc[p] IN
      r.op \in PagedOps =>
        /\ r.pageReqs <= MaxPages
        /\ \A m \in net : m.kind = "endpoint" => m.url.page <= MaxPages
        /\ r.resolved >= MaxPages => r.pc = "done"

C7_Witness ==
    \E p \in Callers :
      /\ proc[p].op = "getProductTestCases" /\ proc[p].pc = "done"
      /\ proc[p].cfg.endless
      /\ proc[p].pageReqs = MaxPages
      /\ proc[p].result.kind = "ok"
      /\ Len(proc[p].result.items) = MaxPages * proc[p].cfg.per

\* C8: the pages of a listing are requested in the order 1, 2, 3, ...; page
\* n + 1 is requested only when the requests of pages 1..n have returned, and
\* at most one page request of the listing is in flight.
C8_PagesInSequence ==
    \A p \in Callers :
      LET r == proc[p]
          flying == {m \in net : m.from = p /\ m.kind = "endpoint"}
      IN r.op \in PagedOps =>
           /\ Cardinality(flying) <= 1
           /\ \A m \in flying : m.url.page = r.resolved + 1
           /\ r.pc # "done" => r.pageReqs = r.resolved + 1
           /\ r.pc # "done" => r.url.page = r.pageReqs

C8_Witness ==
    \E p \in Callers :
      /\ proc[p].op = "getProductStories" /\ proc[p].pc = "awaitEndpoint"
      /\ proc[p].resolved = 2
      /\ \E m \in net : m.from = p /\ m.kind = "endpoint" /\ m.url.page = 3

\* The elements of items whose status is s, in the order of items.
RECURSIVE OfStatus(_, _)
OfStatus(items, s) ==
    IF items = <<>> THEN <<>>
    ELSE (IF Head(items).status = s THEN <<Head(items)>> ELSE <<>>)
         \o OfStatus(Tail(items), s)

BothFilters(r) == r.op \in PagedOps /\ r.moduleId # 0 /\ r.status \notin {"", "all"}

\* C9: with a moduleId and a status other than 'all', every page is asked
\* for by module (browseType byModule, param the module id, no status in the
\* url), and the result is the aggregate of all pages cut down to the records
\* of the requested status, in aggregated order.
C9_ModuleThenLocalStatus ==
    \A p \in Callers :
      LET r == proc[p] IN
      BothFilters(r) =>
        /\ \A m \in net : (m.from = p /\ m.kind = "endpoint") =>
              /\ m.url.browseType = "byModule"
              /\ m.url.param = r.moduleId
        /\ (r.pc = "done" /\ r.result.kind = "ok") =>
              /\ r.result.items = OfStatus(r.all, r.status)
              /\ Consistent(r.cfg) => Len(r.all) = r.cfg.n

C9_Witness ==
    \E p \in Callers :
      /\ BothFilters(proc[p]) /\ proc[p].pc = "done"
      /\ proc[p].result.kind = "ok"
      /\ proc[p].resolved = 2
      /\ Len(proc[p].all) = 2 /\ Len(proc[p].result.items) = 1

\* C10: when the request of a page fails, the listing fails with that error,
\* returns no record of the pages it had fetched and requests no other page.
C10_PageFailureAbortsListing ==
    \A p \in Callers :
      LET r == proc[p] IN
      (r.op \in PagedOps /\ (r.pc = "threw" \/ r.raised # {})) =>
        /\ r.pageReqs = r.resolved + 1
        /\ \A m \in net : m.from # p
        /\ r.pc = "done" =>
             /\ r.result.kind = "err"
             /\ r.raised = {r.result.err}
             /\ r.result.items = <<>>

C10_Witness ==
    \E p \in Callers :
      /\ proc[p].op = "getProductBugs" /\ proc[p].pc = "done"
      /\ proc[p].result.kind = "err" /\ proc[p].result.err = "Transport"
      /\ proc[p].resolved = 1 /\ Len(proc[p].all) >= 1

\* ------------------------------------------------ keywords and match score
\* A string is a sequence of characters.  An ASCII character is written as
\* itself, "KELVIN" is U+212A (KELVIN SIGN), and the ideographs of
\* U+4E00..U+9FA5 are written by their reading: "DA" U+5927, "CU" U+4FC3,
\* "HUO" U+6D3B, "YONG" U+7528, "HU" U+6237, "FANG" U+65B9, "AN" U+6848.
Ideographs == {"DA", "CU", "HUO", "YONG", "HU", "FANG", "AN"}
AsciiLower == {"a", "b", "k", "r"}
AsciiUpper == {"A", "R"}
AsciiDigits == {"1"}

\* String.prototype.toLowerCase, character by character: the upper-case
\* ASCII letters, and the Kelvin sign whose lower case is the ASCII k.
lowerChar(c) ==
    CASE c = "A" -> "a"
      [] c = "R" -> "r"
      [] c = "KELVIN" -> "k"
      [] OTHER -> c
toLowerCase(str) == [i \in 1..Len(str) |-> lowerChar(str[i])]

\* [a-z0-9] and [\u4e00-\u9fa5]
isWordChar(c) == c \in AsciiLower \cup AsciiDigits
isChinese(c) == c \in Ideographs

\* Last index of the match of [a-z0-9]+(?:-[a-z0-9]+)* that starts at i.
RECURSIVE runEnd(_, _)
runEnd(str, i) ==
    IF i < Len(str) /\ isWordChar(str[i + 1]) THEN runEnd(str, i + 1) ELSE i
\* Mutant of wordEnd: a hyphen never continues a word.
wordEndPlain(str, i) == runEnd(str, i)

RECURSIVE wordEnd(_, _)
wordEnd(str, i) ==
    LET e == runEnd(str, i)
    IN IF e + 2 <= Len(str) /\ str[e + 1] = "-" /\ isWordChar(str[e + 2])
       THEN wordEnd(str, e + 2)
       ELSE e

\* lowerKeyword.match(/[a-z0-9]+(?:-[a-z0-9]+)*/g) || [], scanning from i
RECURSIVE englishWords(_, _)
englishWords(str, i) ==
    IF i > Len(str) THEN <<>>
    ELSE IF isWordChar(str[i])
         THEN <<SubSeq(str, i, wordEnd(str, i))>> \o englishWords(str, wordEnd(str, i) + 1)
         ELSE englishWords(str, i + 1)

\* lowerKeyword.match(/[\u4e00-\u9fa5]/g) || []
RECURSIVE chineseChars(_)
chineseChars(str) ==
    IF str = <<>> THEN <<>>
    ELSE (IF isChinese(Head(str)) THEN <<<<Head(str)>>>> ELSE <<>>)
         \o chineseChars(Tail(str))

\* Mutant of splitKeywords: the keyword itself is not pushed when nothing
\* matched.
splitKeywordsBare(keyword) ==
    LET lowerKeyword == toLowerCase(keyword)
    IN englishWords(lowerKeyword, 1) \o chineseChars(lowerKeyword)

\* splitKeywords(keyword)
splitKeywords(keyword) ==
    LET lowerKeyword == toLowerCase(keyword)
        keywords == englishWords(lowerKeyword, 1) \o chineseChars(lowerKeyword)
    IN IF Len(keywords) = 0 THEN <<lowerKeyword>> ELSE keywords

\* The strings over an alphabet of at most n characters.
Strs(alphabet, n) == UNION {[1..k -> alphabet] : k \in 0..n}

\* Keywords handed to splitKeywords.
MaxKeyLen == 3
KeyChars == {"a", "A", "1", "-", " ", "DA", "KELVIN"}
KeywordInputs == Strs(KeyChars, MaxKeyLen)

InitTokens ==
    /\ Init!1 /\ Init!2 /\ Init!3 /\ Init!4 /\ Init!5
    /\ now = 0 /\ batch = NoBatch /\ search = NoSearch
    /\ dates = NoDates /\ tools = NoTools
    /\ sniff = NoSniff /\ judged = NoJudged /\ export = NoExport
    /\ \E k \in KeywordInputs : calc = [pc |-> "tokens", keyword |-> k, keywords |-> <<>>]

\* const keywords = this.splitKeywords(keyword)
SplitKeywords ==
    /\ calc.pc = "tokens"
    /\ calc' = [calc EXCEPT !.pc = "split", !.keywords = splitKeywords(calc.keyword)]
    /\ UNCHANGED <<sessionId, srvNextTok, srvLogged, net, proc, now, batch, search, dates, tools, sniff, judged, export>>

NextTokens == SplitKeywords
SpecTokens == InitTokens /\ [][NextTokens]_vars

\* Mutant of includes: the characters of sub occur in str in order, with
\* anything between them.
RECURSIVE includesScattered(_, _)
includesScattered(str, sub) ==
    IF sub = <<>> THEN TRUE
    ELSE IF str = <<>> THEN FALSE
    ELSE IF Head(str) = Head(sub) THEN includesScattered(Tail(str), Tail(sub))
    ELSE includesScattered(Tail(str), sub)

\* str.includes(sub)
includes(str, sub) ==
    \E i \in 0..(Len(str) - Len(sub)) : SubSeq(str, i + 1, i + Len(sub)) = sub

\* keywords.filter(k => text.includes(k)).length
RECURSIVE keywordMatches(_, _)
keywordMatches(text, keywords) ==
    IF keywords = <<>> THEN 0
    ELSE (IF includes(text, Head(keywords)) THEN 1 ELSE 0)
         + keywordMatches(text, Tail(keywords))

\* A score is the fraction num / den with den = keywords.length: the code
\* adds 60 * (matches / keywords.length) and 20 * (matches / keywords.length)
\* to whole numbers; the model keeps the exact fraction.
Points(n, keywords) == n * Len(keywords)

\* Mutant of titleTier: the alternatives add up instead of excluding each
\* other.
titleTierCumulative(story, keyword, keywords) ==
    LET title_lower == toLowerCase(story.title)
    IN (IF title_lower = keyword THEN Points(100, keywords) ELSE 0)
       + (IF includes(title_lower, keyword) THEN Points(80, keywords) ELSE 0)
       + 60 * keywordMatches(title_lower, keywords)

\* Title tier: 100 for title === keyword, else 80 for title.includes(keyword),
\* else 60 * (titleKeywordMatches / keywords.length).
titleTier(story, keyword, keywords) ==
    LET title_lower == toLowerCase(story.title)
    IN IF title_lower = keyword THEN Points(100, keywords)
       ELSE IF includes(title_lower, keyword) THEN Points(80, keywords)
       ELSE 60 * keywordMatches(title_lower, keywords)

\* Mutant of descTier: the token share is added to the 40 of a full match.
descTierBoth(story, keyword, keywords) ==
    LET spec_lower == toLowerCase(story.spec)
    IN (IF includes(spec_lower, keyword) THEN Points(40, keywords) ELSE 0)
       + 20 * keywordMatches(spec_lower, keywords)

\* Description tier: 40 for spec.includes(keyword), else, for a non-empty
\* spec, 20 * (specKeywordMatches / keywords.length).
descTier(story, keyword, keywords) ==
    LET spec_lower == toLowerCase(story.spec)
    IN IF includes(spec_lower, keyword) THEN Points(40, keywords)
       ELSE IF spec_lower # <<>> THEN 20 * keywordMatches(spec_lower, keywords)
       ELSE 0

\* Mutant of auxBonus: the module and product names earn nothing.
auxBonusNone(story, keyword, keywords) == 0

\* Bonus: 10 when moduleName or productName includes the keyword.
auxBonus(story, keyword, keywords) ==
    IF \/ includes(toLowerCase(story.moduleName), keyword)
       \/ includes(toLowerCase(story.productName), keyword)
    THEN Points(10, keywords)
    ELSE 0

\* calculateMatchScore(story, keyword, keywords)
calculateMatchScore(story, keyword, keywords) ==
    [num |-> titleTier(story, keyword, keywords) + descTier(story, keyword, keywords)
             + auxBonus(story, keyword, keywords),
     den |-> Len(keywords)]

\* Stories and keywords handed to calculateMatchScore; the keyword and the
\* title of the worked example among them.
MaxLen == 2
ExampleKeyword == <<"DA", "R", "CU", "HUO">>
ExampleTitle == <<"DA", "R", "YONG", "HU", "CU", "HUO", "FANG", "AN">>
ScoreKeywords == Strs({"a", "DA", " "}, MaxLen) \cup {ExampleKeyword}
ScoreStories ==
    [title : Strs({"a", "A", "DA"}, MaxLen) \cup {ExampleTitle},
     spec : Strs({"a", "DA"}, MaxLen),
     moduleName : {<<>>, <<"a">>, <<"DA">>},
     productName : {<<>>, <<"a">>}]

InitScore ==
    /\ Init!1 /\ Init!2 /\ Init!3 /\ Init!4 /\ Init!5
    /\ now = 0 /\ batch = NoBatch /\ search = NoSearch
    /\ dates = NoDates /\ tools = NoTools
    /\ sniff = NoSniff /\ judged = NoJudged /\ export = NoExport
    /\ \E k \in ScoreKeywords, st \in ScoreStories :
         calc = [pc |-> "story", keyword |-> k, story |-> st, keywords |-> <<>>,
                 score |-> [num |-> 0, den |-> 1]]

\* const keywords = this.splitKeywords(keyword); const keyword_lower =
\* keyword.toLowerCase(); score = this.calculateMatchScore(story,
\* keyword_lower, keywords)
Score ==
    /\ calc.pc = "story"
    /\ LET keywords == splitKeywords(calc.keyword)
           keyword_lower == toLowerCase(calc.keyword)
       IN calc' = [calc EXCEPT !.pc = "scored", !.keywords = keywords,
                     !.score = calculateMatchScore(calc.story, keyword_lower, keywords)]
    /\ UNCHANGED <<sessionId, srvNextTok, srvLogged, net, proc, now, batch, search, dates, tools, sniff, judged, export>>

NextScore == Score
SpecScore == InitScore /\ [][NextScore]_vars

\* --------------------------------------------------------- image downloads
\* timeoutMs, in ticks of the clock.
timeoutMs == 2

\* The url lists handed to downloadImages; item i of a call runs as process i.
UrlLists == {<<>>, <<10>>, <<20, 10>>, <<10, 20, 30>>}

ImageMsg(p, sid) == [from |-> p, kind |-> "image", sid |-> sid, url |-> NoUrl]

\* Mutant of timerDeadline: the timer runs one tick longer.
timerDeadlineLate(t) == t + timeoutMs + 1

\* setTimeout(() => resolve({url, success: false, error: timeout}), timeoutMs)
timerDeadline(t) == t + timeoutMs

TimedOut(url) == [url |-> url, success |-> FALSE, error |-> "timeout"]
Downloaded(url) == [url |-> url, success |-> TRUE, error |-> ""]
Failed(url, err) == [url |-> url, success |-> FALSE, error |-> err]

\* downloadImageWithTimeout(zentaoApi, url, timeoutMs) up to its first await:
\* the timer is armed and downloadStoryImage(url) is entered.
startItem(url, t) ==
    [NoItem EXCEPT !.url = url, !.timer = "armed", !.deadline = timerDeadline(t),
                   !.transfer = "pending"]
launch(pr, i, held) ==
    [pr EXCEPT ![i] = [IdleProc EXCEPT !.op = "downloadStoryImage", !.pc = "ensure",
                                       !.heldAtEntry = held]]

\* Mutant of collect: the results in the order the items settled first.
collectUnordered(b) ==
    IF Len(b.items) >= 2 /\ b.items[1].inTime /\ ~b.items[2].inTime
    THEN [k \in 1..Len(b.items) |->
            b.items[IF k = 1 THEN 2 ELSE IF k = 2 THEN 1 ELSE k].race]
    ELSE [k \in 1..Len(b.items) |-> b.items[k].race]

\* await Promise.allSettled(downloadPromises), then results.map((result,
\* index) => result.value): every promise of downloadImageWithTimeout
\* fulfils, with the value its race settled with.
collect(b) == [k \in 1..Len(b.items) |-> b.items[k].race]

\* Mutant of settle: in serial mode a result that is not a success ends the
\* call with the results so far.
settleStopsOnFailure(b, i, res, t) ==
    LET raced == [b EXCEPT !.items[i].race = res]
        pushed == [raced EXCEPT !.results = Append(@, res)]
    IN IF b.parallel
       THEN IF \A k \in 1..Len(raced.items) : raced.items[k].race # NoImage
            THEN [raced EXCEPT !.pc = "returned", !.out = collect(raced), !.returnedAt = t]
            ELSE raced
       ELSE IF i < Len(b.imageUrls) /\ res.success
            THEN [pushed EXCEPT !.items[i + 1] = startItem(b.imageUrls[i + 1], t)]
            ELSE [pushed EXCEPT !.pc = "returned", !.out = pushed.results, !.returnedAt = t]

\* What follows when the race of item i settles with res at time t: in
\* parallel mode allSettled resolves once every race has settled; in serial
\* mode the result is pushed and the loop goes on to the next url.
settle(b, i, res, t) ==
    LET raced == [b EXCEPT !.items[i].race = res]
        pushed == [raced EXCEPT !.results = Append(@, res)]
    IN IF b.parallel
       THEN IF \A k \in 1..Len(raced.items) : raced.items[k].race # NoImage
            THEN [raced EXCEPT !.pc = "returned", !.out = collect(raced), !.returnedAt = t]
            ELSE raced
       ELSE IF i < Len(b.imageUrls)
            THEN [pushed EXCEPT !.items[i + 1] = startItem(b.imageUrls[i + 1], t)]
            ELSE [pushed EXCEPT !.pc = "returned", !.out = pushed.results, !.returnedAt = t]

\* Mutant of Racing: a race counts as open as long as the call runs, settled
\* or not.
RacingUntilReturn(i) == batch.pc = "running"

\* The race of item i is still open.
Racing(i) == batch.pc = "running" /\ batch.items[i].race = NoImage

\* Serial mode goes on to url i + 1 when the race of item i settles.
StartsNext(i) == ~batch.parallel /\ i < Len(batch.imageUrls)

\* downloadImages(zentaoApi, imageUrls, parallel, timeoutMs) up to its await.
StartBatch ==
    /\ LoopFree
    /\ batch.pc = "none"
    /\ \E urls \in UrlLists, parallel \in BOOLEAN :
         LET n == Len(urls)
             b == [NoBatch EXCEPT !.parallel = parallel, !.imageUrls = urls, !.started = now]
         IN IF n = 0
            THEN /\ batch' = [b EXCEPT !.pc = "returned", !.returnedAt = now]
                 /\ UNCHANGED proc
            ELSE IF parallel
            THEN /\ batch' = [b EXCEPT !.pc = "running",
                                !.items = [k \in 1..n |-> startItem(urls[k], now)]]
                 /\ proc' = [q \in Procs |->
                               IF q <= n THEN launch(proc, q, sessionId)[q] ELSE proc[q]]
            ELSE /\ batch' = [b EXCEPT !.pc = "running",
                                !.items = [k \in 1..n |->
                                    IF k = 1 THEN startItem(urls[1], now) ELSE NoItem]]
                 /\ proc' = launch(proc, 1, sessionId)
    /\ UNCHANGED <<sessionId, srvNextTok, srvLogged, net, now, calc, search, dates, tools, sniff, judged, export>>

\* downloadStoryImage: const sid = await this.ensureLoggedIn() has returned;
\* await this.client.get(fullImageUrl, {params: {zentaosid: sid}, ...})
sendImage(p) ==
    /\ proc[p].op = "downloadStoryImage"
    /\ proc[p].pc = "ensured"
    /\ net' = net \cup {ImageMsg(p, proc[p].sid)}
    /\ proc' = [proc EXCEPT ![p] = [@ EXCEPT !.pc = "awaitImage",
                                            !.calls = Append(@, "image")]]
    /\ UNCHANGED <<sessionId, srvNextTok, srvLogged, now, batch, calc, search, dates, tools, sniff, judged, export>>

\* The transfer resolves: downloadStoryImage returns Buffer.from(
\* response.data), whatever the body is (the bytes of the image, or the
\* login page the backend sends for an expired session), or client.get
\* throws.  The body is not looked at: isSessionExpired is not called here.
imageResponse(p, answers) ==
    /\ LoopFree
    /\ proc[p].pc = "awaitImage"
    /\ ImageMsg(p, proc[p].sid) \in net
    /\ net' = net \ {ImageMsg(p, proc[p].sid)}
    /\ \E ans \in answers :
         proc' = [proc EXCEPT ![p] =
            IF ans = "bytes"
            THEN [@ EXCEPT !.pc = "returned", !.hist = Append(@, "success")]
            ELSE IF ans = "loginPage"
            THEN [@ EXCEPT !.pc = "returned", !.hist = Append(@, "expired")]
            ELSE [@ EXCEPT !.pc = "threw", !.err = "Transport"]]
    /\ UNCHANGED <<sessionId, srvNextTok, srvLogged, now, batch, calc, search, dates, tools, sniff, judged, export>>

ImageResponse(p) == imageResponse(p, {"bytes", "fail"})
\* A backend that may also have expired the session the transfer was sent with.
ImageResponseAny(p) == imageResponse(p, {"bytes", "loginPage", "fail"})

\* Mutant of downloadSettled: an error of downloadStoryImage is not caught
\* and rejects the whole call.
downloadSettledRejects(p) ==
    /\ proc[p].op = "downloadStoryImage"
    /\ proc[p].pc \in {"returned", "threw"}
    /\ batch' = IF proc[p].pc = "threw" THEN [batch EXCEPT !.pc = "rejected"]
                ELSE IF Racing(p)
                THEN settle([batch EXCEPT !.items[p].transfer = "bytes",
                                          !.items[p].inTime = TRUE],
                            p, Downloaded(batch.items[p].url), now)
                ELSE batch
    /\ proc' = [proc EXCEPT ![p] = [@ EXCEPT !.pc = "done"]]
    /\ UNCHANGED <<sessionId, srvNextTok, srvLogged, net, now, calc, search, dates, tools, sniff, judged, export>>

\* The async function around downloadStoryImage: try { ...; return {url,
\* ..., success: true} } catch (error) { return {url, success: false, error} }
\* and, when the timer has not settled the race before, what follows.
downloadSettled(p) ==
    /\ proc[p].op = "downloadStoryImage"
    /\ proc[p].pc \in {"returned", "threw"}
    /\ LET res == IF proc[p].pc = "returned" THEN Downloaded(batch.items[p].url)
                  ELSE Failed(batch.items[p].url, proc[p].err)
           noted == [batch EXCEPT
                       !.items[p].transfer = IF proc[p].pc = "returned" THEN "bytes" ELSE "threw",
                       !.items[p].inTime = Racing(p)]
       IN IF Racing(p)
          THEN /\ batch' = settle(noted, p, res, now)
               /\ proc' = IF StartsNext(p)
                          THEN launch([proc EXCEPT ![p] = [@ EXCEPT !.pc = "done"]],
                                      p + 1, sessionId)
                          ELSE [proc EXCEPT ![p] = [@ EXCEPT !.pc = "done"]]
          ELSE /\ batch' = noted
               /\ proc' = [proc EXCEPT ![p] = [@ EXCEPT !.pc = "done"]]
    /\ UNCHANGED <<sessionId, srvNextTok, srvLogged, net, now, calc, search, dates, tools, sniff, judged, export>>

\* Mutant of TimerFires: a timer that is due is dropped without resolving.
TimerFiresIdle(i) ==
    /\ LoopFree
    /\ i \in 1..Len(batch.items)
    /\ batch.items[i].timer = "armed"
    /\ now >= batch.items[i].deadline
    /\ batch' = [batch EXCEPT !.items[i].timer = "fired"]
    /\ UNCHANGED <<sessionId, srvNextTok, srvLogged, net, proc, now, calc, search, dates, tools, sniff, judged, export>>

\* The timer of item i fires: resolve({url, success: false, error: timeout}).
\* The transfer is neither cancelled nor waited for.
TimerFires(i) ==
    /\ LoopFree
    /\ i \in 1..Len(batch.items)
    /\ batch.items[i].timer = "armed"
    /\ now >= batch.items[i].deadline
    /\ LET fired == [batch EXCEPT !.items[i].timer = "fired"]
       IN IF Racing(i)
          THEN /\ batch' = settle(fired, i, TimedOut(batch.items[i].url), now)
               /\ proc' = IF StartsNext(i) THEN launch(proc, i + 1, sessionId) ELSE proc
          ELSE /\ batch' = fired
               /\ UNCHANGED proc
    /\ UNCHANGED <<sessionId, srvNextTok, srvLogged, net, now, calc, search, dates, tools, sniff, judged, export>>

\* Time passes while the event loop is free and no armed timer is due.
Tick ==
    /\ LoopFree
    /\ \E i \in 1..Len(batch.items) : batch.items[i].timer = "armed"
    /\ \A i \in 1..Len(batch.items) :
          batch.items[i].timer = "armed" => now < batch.items[i].deadline
    /\ now' = now + 1
    /\ UNCHANGED <<sessionId, srvNextTok, srvLogged, net, proc, batch, calc, search, dates, tools, sniff, judged, export>>

\* One downloadImages call over the session of the client.
NextImages ==
    \/ StartBatch
    \/ Tick
    \/ \E p \in Procs :
         \/ ensureLoggedIn(p)
         \/ SessionIdGranted(p)
         \/ LoginAccepted(p)
         \/ sendImage(p)
         \/ ImageResponse(p)
         \/ downloadSettled(p)
         \/ TimerFires(p)

SpecImages == Init /\ [][NextImages]_vars

\* The same call against a backend that may expire the session at any
\* transfer.
NextImagesExpiry ==
    \/ StartBatch
    \/ Tick
    \/ \E p \in Procs :
         \/ ensureLoggedIn(p)
         \/ SessionIdGranted(p)
         \/ LoginAccepted(p)
         \/ sendImage(p)
         \/ ImageResponseAny(p)
         \/ downloadSettled(p)
         \/ TimerFires(p)

SpecImagesExpiry == Init /\ [][NextImagesExpiry]_vars

\* Timers fire when due and synchronous code runs on; nothing is assumed of
\* the network.
FairImages ==
    /\ WF_vars(Tick)
    /\ \A p \in Procs :
         /\ WF_vars(TimerFires(p))
         /\ WF_vars(ensureLoggedIn(p))
         /\ WF_vars(sendImage(p))
         /\ WF_vars(downloadSettled(p))
SpecImagesFair == Init /\ [][NextImages]_vars /\ FairImages

\* ------------------------------------------------------------ searchStories
\* const { productId, status, limit = 50, deepSearch = false } = options
DefaultLimit == 50
\* .filter(item => titleMatch && !specMatch && item.score < 50).slice(0, 10)
DeepBelow == 50
DeepMax == 10

\* The listings searched, the keywords and limits of the calls, and the
\* title and spec the backend lists for a story.
SearchCfgs == {cfg \in SmallCfgs : cfg.closed = {}}
SearchKeywords == {<<"a">>, <<"A", "DA">>}
Limits == {0, 1, DefaultLimit}
ListedTexts == [title : {<<"a">>, <<"a", "DA">>}, spec : {<<>>, <<"a">>}]

\* allStories.map(story => ({id, title, ..., spec: story.spec || ''})): the
\* stories of the listing with the texts the backend lists for them.
listedStories(items, texts) ==
    [k \in 1..Len(items) |->
        [id |-> items[k].id, title |-> texts[items[k].id].title,
         spec |-> texts[items[k].id].spec, moduleName |-> <<>>, productName |-> <<>>]]

\* allStories.map(story => ({story, score})).filter(item => item.score > 0)
RECURSIVE scoreAll(_, _, _)
scoreAll(stories, keyword_lower, keywords) ==
    IF stories = <<>> THEN <<>>
    ELSE LET sc == calculateMatchScore(Head(stories), keyword_lower, keywords)
         IN (IF sc.num > 0 THEN <<[story |-> Head(stories), score |-> sc.num]>> ELSE <<>>)
            \o scoreAll(Tail(stories), keyword_lower, keywords)

\* The stories deep search looks up: title matched, spec did not, score < 50.
deepCandidates(scored, keyword_lower, keywords) ==
    LET Low(item) ==
          /\ includes(toLowerCase(item.story.title), keyword_lower)
          /\ ~(item.story.spec # <<>> /\ includes(toLowerCase(item.story.spec), keyword_lower))
          /\ item.score < DeepBelow * Len(keywords)
        low == SelectSeq(scored, Low)
    IN SubSeq(low, 1, IF Len(low) < DeepMax THEN Len(low) ELSE DeepMax)

\* Mutant of compare: equal scores are ordered by ascending id.
compareIdAscending(a, b) ==
    IF b.score # a.score THEN b.score - a.score ELSE a.story.id - b.story.id

\* (a, b) => b.score !== a.score ? b.score - a.score : b.story.id - a.story.id
compare(a, b) ==
    IF b.score # a.score THEN b.score - a.score ELSE b.story.id - a.story.id

\* Array.prototype.sort with compare (a stable sort): x is put behind every
\* element it does not have to precede.
RECURSIVE insertSorted(_, _)
insertSorted(sorted, x) ==
    IF sorted = <<>> THEN <<x>>
    ELSE IF compare(x, Head(sorted)) < 0 THEN <<x>> \o sorted
    ELSE <<Head(sorted)>> \o insertSorted(Tail(sorted), x)
RECURSIVE sortScored(_)
sortScored(items) ==
    IF items = <<>> THEN <<>>
    ELSE insertSorted(sortScored(SubSeq(items, 1, Len(items) - 1)), items[Len(items)])

\* scoredStories.slice(0, limit).map(item => item.story)
sliceStories(items, limit) ==
    [k \in 1..(IF Len(items) < limit THEN Len(items) ELSE limit) |-> items[k].story]

\* searchStories(keyword, {productId, status, limit, deepSearch}) up to the
\* first request of getProductStories(productId, status).
StartSearch(p) ==
    /\ CanStart(p)
    /\ search.pc = "none"
    /\ \E status \in Statuses, cfg \in SearchCfgs :
         proc' = [proc EXCEPT ![p] =
           LET r == [IdleProc EXCEPT !.op = "getProductStories", !.status = status,
                                     !.cfg = cfg,
                                     !.browseType = browseTypeOf("getProductStories", status, 0),
                                     !.param = paramOf(0),
                                     !.currentPage = 1, !.hasMore = TRUE, !.pageReqs = 1]
           IN callRequest(r, "GET", pageUrl(r), sessionId)]
    /\ search' = [NoSearch EXCEPT !.pc = "listing"]
    /\ UNCHANGED <<sessionId, srvNextTok, srvLogged, net, now, batch, calc, dates, tools, sniff, judged, export>>

\* searchStories once getProductStories has returned or thrown.  keyword,
\* limit and deepSearch are arguments of the call; they play no part before
\* this point and are drawn here, with the texts of the stories listed.
\* A thrown error is wrapped and rethrown.  Otherwise the stories are scored,
\* those without a match dropped, the deep-search candidates (if deepSearch)
\* looked up one after the other, and the rest sorted and cut to limit.
SearchListed(p) ==
    /\ search.pc = "listing"
    /\ proc[p].op = "getProductStories"
    /\ proc[p].pc = "done"
    /\ IF proc[p].result.kind = "err"
       THEN /\ search' = [search EXCEPT !.pc = "done", !.kind = "err",
                                        !.err = proc[p].result.err]
            /\ proc' = [proc EXCEPT ![p] = [@ EXCEPT !.op = "searchStories"]]
       ELSE \E keyword \in SearchKeywords, limit \in Limits, deepSearch \in BOOLEAN,
               texts \in [1..MaxRecords -> ListedTexts] :
              LET allStories == listedStories(proc[p].result.items, texts)
                  keywords == splitKeywords(keyword)
                  keyword_lower == toLowerCase(keyword)
                  scored == scoreAll(allStories, keyword_lower, keywords)
                  cands == IF deepSearch
                           THEN deepCandidates(scored, keyword_lower, keywords)
                           ELSE <<>>
                  sofar == [search EXCEPT !.keyword = keyword, !.keywords = keywords,
                                          !.limit = limit, !.deepSearch = deepSearch,
                                          !.listed = allStories, !.scored = scored,
                                          !.candidates = cands]
              IN IF cands # <<>>
                 THEN \* const detail = await this.getStoryDetail(item.story.id)
                      /\ search' = [sofar EXCEPT !.pc = "deep",
                                                 !.detailed = {cands[1].story.id}]
                      /\ proc' = [proc EXCEPT ![p] =
                            callRequest([IdleProc EXCEPT !.op = "getStoryDetail",
                                                         !.step = FirstStep("getStoryDetail")],
                                        "GET", PathUrl(StepPath(FirstStep("getStoryDetail"))),
                                        sessionId)]
                 ELSE /\ search' = [sofar EXCEPT !.pc = "done", !.kind = "ok",
                                       !.out = sliceStories(sortScored(scored), limit)]
                      /\ proc' = [proc EXCEPT ![p] = [@ EXCEPT !.op = "searchStories"]]
    /\ UNCHANGED <<sessionId, srvNextTok, srvLogged, net, now, batch, calc, dates, tools, sniff, judged, export>>

\* One caller searching the stories of a product, against a backend whose
\* login works.
NextSearch ==
    \E p \in Callers :
       \/ ensureLoggedIn(p)
       \/ forceReLogin(p)
       \/ SessionIdGranted(p)
       \/ LoginAccepted(p)
       \/ sendEndpoint(p)
       \/ retryRequest(p)
       \/ EndpointResponse(p)
       \/ PageReturned(p)
       \/ PageThrew(p)
       \/ StartSearch(p)
       \/ SearchListed(p)

SpecSearch == Init /\ [][NextSearch]_vars

\* -------------------------------------------------------- date range filter
\* A date string as searchStories receives it: absent, "YYYY-MM-DD",
\* "YYYY-MM-DD HH:mm:ss" (the form ZenTao gives openedDate), or a text that
\* new Date() cannot read (ZenTao's "0000-00-00 00:00:00" among them).  Time
\* is counted in hours; a day is 24 of them.
MaxDay == 2
MaxStories == 1
Days == 1..MaxDay
Hours == {0, 12}
\* The offset of the local time zone from UTC, in hours east.
TimeZones == {-8, 0, 8}
NoDate == [kind |-> "none", day |-> 0, hour |-> 0]
BadDate == [kind |-> "bad", day |-> 0, hour |-> 0]
DateStrs ==
    {NoDate, BadDate}
      \cup {[kind |-> "date", day |-> d, hour |-> 0] : d \in Days}
      \cup {[kind |-> "datetime", day |-> d, hour |-> h] : d \in Days, h \in Hours}

\* !dateStr
falsy(dateStr) == dateStr.kind = "none"

\* parseDate(dateStr): null, or the instant new Date(dateStr) denotes.  The
\* date-only form is read as midnight UTC, the date-time form as local time.
NullDate == [ok |-> FALSE, t |-> 0]
parseDate(dateStr) ==
    IF falsy(dateStr) THEN NullDate
    ELSE IF dateStr.kind = "bad" THEN NullDate
    ELSE IF dateStr.kind = "date" THEN [ok |-> TRUE, t |-> dateStr.day * 24]
    ELSE [ok |-> TRUE, t |-> dateStr.day * 24 + dateStr.hour - dates.tz]

\* The test of stories.filter(story => ...) in filterByDateRange.
inRange(story, start, end) ==
    IF falsy(story.openedDate) THEN FALSE
    ELSE LET storyDate == parseDate(story.openedDate)
         IN IF ~storyDate.ok THEN FALSE
            ELSE IF start.ok /\ storyDate.t < start.t THEN FALSE
            ELSE IF end.ok /\ storyDate.t > end.t THEN FALSE
            ELSE TRUE

\* filterByDateRange(stories, startDate, endDate)
filterByDateRange(stories, startDate, endDate) ==
    IF falsy(startDate) /\ falsy(endDate) THEN stories
    ELSE LET start == IF ~falsy(startDate) THEN parseDate(startDate) ELSE NullDate
             end == IF ~falsy(endDate) THEN parseDate(endDate) ELSE NullDate
         IN SelectSeq(stories, LAMBDA story : inRange(story, start, end))

\* The stories of a listing, with the openedDate the backend gave each.
DatedStories ==
    UNION {[1..n -> {[id |-> i, openedDate |-> d] : i \in {1}, d \in DateStrs}]
             : n \in 1..MaxStories}

InitDates ==
    /\ Init!1 /\ Init!2 /\ Init!3 /\ Init!4 /\ Init!5
    /\ now = 0 /\ batch = NoBatch /\ calc = NoCalc /\ search = NoSearch
    /\ tools = NoTools
    /\ sniff = NoSniff /\ judged = NoJudged /\ export = NoExport
    /\ \E tz \in TimeZones, s \in DateStrs, e \in DateStrs, st \in DatedStories :
         dates = [pc |-> "listed", tz |-> tz, startDate |-> s, endDate |-> e,
                  stories |-> st, out |-> <<>>]

\* if (startDate || endDate) { stories = this.filterByDateRange(stories,
\* startDate, endDate) }
FilterByDateRange ==
    /\ dates.pc = "listed"
    /\ dates' = [dates EXCEPT !.pc = "filtered",
                   !.out = IF ~falsy(dates.startDate) \/ ~falsy(dates.endDate)
                           THEN filterByDateRange(dates.stories, dates.startDate,
                                                  dates.endDate)
                           ELSE dates.stories]
    /\ UNCHANGED <<sessionId, srvNextTok, srvLogged, net, proc, now, batch, calc,
                   search, tools, sniff, judged, export>>

NextDates == FilterByDateRange
SpecDates == InitDates /\ [][NextDates]_vars

\* -------------------------------------------------------------- batch tools
\* The batchUpdateTasks and batchResolveBugs tools.  The requests of the
\* client that a tool awaits for one id, in order: updateTask POSTs
\* task-edit and reads the task back; the bug tool awaits resolveBug and then
\* getBugDetail.  Each request returns or throws (the request primitive
\* itself is modelled above).
MaxIds == 2
BatchTools == {"batchUpdateTasks", "batchResolveBugs"}
EntityIds == {1, 2}
IdLists == UNION {[1..n -> EntityIds] : n \in 0..MaxIds}

itemCalls(tool) ==
    IF tool = "batchUpdateTasks" THEN <<"task-edit", "task-view">>
    ELSE <<"bug-resolve", "bug-view">>

NoOutcome == [results |-> <<>>, total |-> 0, success |-> 0]

\* return {content: [{text: JSON.stringify({results, total: ids.length,
\* success: results.filter(r => r.success).length})}]}
toolResult(t) ==
    [results |-> t.results, total |-> Len(t.ids),
     success |-> Cardinality({j \in 1..Len(t.results) : t.results[j].success})]

\* The request `step` of item k is made; `at` notes how many outcomes had
\* been pushed by then.
callApi(t, k, step) ==
    [t EXCEPT !.pc = "await", !.k = k, !.step = step,
              !.log = Append(@, [k |-> k, call |-> itemCalls(t.tool)[step],
                                 at |-> Len(t.results)])]

\* for (const id of ids) { ... }: the loop reaches item k, or is over.
forEach(t, k) ==
    IF k > Len(t.ids)
    THEN [t EXCEPT !.pc = "returned", !.out = toolResult(t)]
    ELSE callApi(t, k, 1)

\* Mutant of onCatch: the error of an item is rethrown to the outer catch,
\* which fails the whole tool call.
onCatchRethrow(t) == [t EXCEPT !.pc = "threw", !.err = "API_ERROR"]

\* catch (error) { results.push({id, success: false, error}) }
onCatch(t) ==
    forEach([t EXCEPT !.results = Append(@, [id |-> t.ids[t.k], success |-> FALSE]),
                      !.failed = @ \cup {t.k}],
            t.k + 1)

\* results.push({id, success: true, task | bug})
onSuccess(t) ==
    forEach([t EXCEPT !.results = Append(@, [id |-> t.ids[t.k], success |-> TRUE])],
            t.k + 1)

\* The tool handler is called: await ensureInitialized(), then the loop up to
\* its first await.  Without configuration ensureInitialized throws.
StartTool ==
    /\ tools.pc = "none"
    /\ \E tool \in BatchTools, ids \in IdLists, configured \in BOOLEAN :
         LET t == [pc |-> "start", tool |-> tool, ids |-> ids, k |-> 0, step |-> 0,
                   results |-> <<>>, log |-> <<>>, failed |-> {}, err |-> "",
                   out |-> NoOutcome]
         IN tools' = IF configured THEN forEach(t, 1)
                     ELSE [t EXCEPT !.pc = "threw", !.err = "CONFIG_ERROR"]
    /\ UNCHANGED <<sessionId, srvNextTok, srvLogged, net, proc, now, batch, calc,
                   search, dates, sniff, judged, export>>

\* The awaited request of the current item returns or throws.
ApiCallSettles ==
    /\ tools.pc = "await"
    /\ \E ans \in {"ok", "threw"} :
         tools' = IF ans = "threw" THEN onCatch(tools)
                  ELSE IF tools.step < Len(itemCalls(tools.tool))
                  THEN callApi(tools, tools.k, tools.step + 1)
                  ELSE onSuccess(tools)
    /\ UNCHANGED <<sessionId, srvNextTok, srvLogged, net, proc, now, batch, calc,
                   search, dates, sniff, judged, export>>

NextTools == StartTool \/ ApiCallSettles
SpecTools == Init /\ [][NextTools]_vars

\* ----------------------------------------------------------- detectMimeType
\* A payload is the sequence of its bytes; buffer[k] of the code is byte
\* k + 1 of the sequence, and undefined past the end.
MaxBytes == 3
Bytes == {255, 216, 71, 73, 137, 80, 0}
Payloads == UNION {[1..n -> Bytes] : n \in 0..MaxBytes}
\* undefined equals no byte value: it is written as a number outside 0..255.
byteAt(buffer, k) == IF k + 1 <= Len(buffer) THEN buffer[k + 1] ELSE 0 - 1

\* Mutant of detectMimeType: only the first byte of a signature is compared.
detectMimeTypeFirstByte(buffer) ==
    IF byteAt(buffer, 0) = 255 THEN "image/jpeg"
    ELSE IF byteAt(buffer, 0) = 71 THEN "image/gif"
    ELSE "image/png"

\* detectMimeType(buffer)
detectMimeType(buffer) ==
    IF byteAt(buffer, 0) = 255 /\ byteAt(buffer, 1) = 216 THEN "image/jpeg"
    ELSE IF byteAt(buffer, 0) = 71 /\ byteAt(buffer, 1) = 73 THEN "image/gif"
    ELSE IF byteAt(buffer, 0) = 137 /\ byteAt(buffer, 1) = 80 THEN "image/png"
    ELSE "image/png"

\* return {url, base64, mimeType, size: imageBuffer.length, success: true}
successResult(imageBuffer) ==
    [success |-> TRUE, mimeType |-> detectMimeType(imageBuffer),
     size |-> Len(imageBuffer)]

InitMime ==
    /\ Init!1 /\ Init!2 /\ Init!3 /\ Init!4 /\ Init!5
    /\ now = 0 /\ batch = NoBatch /\ calc = NoCalc /\ search = NoSearch
    /\ dates = NoDates /\ tools = NoTools /\ judged = NoJudged /\ export = NoExport
    /\ \E b \in Payloads : sniff = [pc |-> "payload", imageBuffer |-> b]

\* const imageBuffer = await zentaoApi.downloadStoryImage(url) has returned.
DownloadReturns ==
    /\ sniff.pc = "payload"
    /\ sniff' = [pc |-> "result", imageBuffer |-> sniff.imageBuffer,
                 result |-> successResult(sniff.imageBuffer)]
    /\ UNCHANGED <<sessionId, srvNextTok, srvLogged, net, proc, now, batch, calc,
                   search, dates, tools, judged, export>>

NextMime == DownloadReturns
SpecMime == InitMime /\ [][NextMime]_vars

\* --------------------------------------------------------- isSessionExpired
\* The bodies the function is applied to: strings, and parsed envelopes whose
\* content (a story text, say) may itself hold the marker texts.
ObjectBodies == {[type |-> "json", markers |-> m, status |-> s, hasData |-> d] :
                   m \in SUBSET Markers, s \in {"success", "fail"}, d \in BOOLEAN}
JudgedBodies == HtmlBodies \cup ObjectBodies

\* The session is in any state it can be in: t logins have succeeded.
InitJudged ==
    /\ Init!4 /\ Init!5
    /\ now = 0 /\ batch = NoBatch /\ calc = NoCalc /\ search = NoSearch
    /\ dates = NoDates /\ tools = NoTools /\ sniff = NoSniff /\ export = NoExport
    /\ \E t \in 0..MaxTokens, b \in JudgedBodies :
         /\ sessionId = t /\ srvNextTok = t /\ srvLogged = 1..t
         /\ judged = [pc |-> "body", body |-> b, held |-> t]

\* if (this.isSessionExpired(response.data)) ...
IsSessionExpired ==
    /\ judged.pc = "body"
    /\ judged' = [judged EXCEPT !.pc = "result"] @@
                 [expired |-> isSessionExpired(judged.body)]
    /\ UNCHANGED <<sessionId, srvNextTok, srvLogged, net, proc, now, batch, calc,
                   search, dates, tools, sniff, export>>

NextJudged == IsSessionExpired
SpecJudged == InitJudged /\ [][NextJudged]_vars

\* ------------------------------------- searchStories over all the products
\* The products of the backend, as getProducts returns them: Object.keys of
\* an object with integer keys lists them in ascending order.
MaxProducts == 2
ProductLists == {<<>>} \cup UNION {{[i \in 1..n |-> i]} : n \in 1..MaxProducts}
             \cup {<<k>> : k \in 1..MaxProducts}
\* The listings behind the products: arrays, behind a consistent pager.
WalkCfgs == {cfg \in SearchCfgs : ~cfg.keyed}

\* Story ids are unique across products: story j of product k.
storyId(product, j) == (product - 1) * MaxRecords + j
\* The stories getProductStories(product.id, status) returned, as searched:
\* each title holds the keyword.
walkStories(product, items) ==
    [k \in 1..Len(items) |->
        [id |-> storyId(product, items[k].id), title |-> <<"a">>, spec |-> <<>>,
         moduleName |-> <<>>, productName |-> <<>>]]

\* getProductStories(product.id, status) up to the request of page 1.
fetchStories(status, cfg, held) ==
    LET r == [IdleProc EXCEPT !.op = "getProductStories", !.status = status,
                              !.cfg = cfg,
                              !.browseType = browseTypeOf("getProductStories", status, 0),
                              !.param = paramOf(0),
                              !.currentPage = 1, !.hasMore = TRUE, !.pageReqs = 1]
    IN callRequest(r, "GET", pageUrl(r), held)

\* Mutant of collectStories: a failed fetch empties allStories.
collectStoriesResets(s, product, res, n) ==
    [s EXCEPT !.fetched = Append(@, [product |-> product, ok |-> res.kind = "ok", n |-> n]),
              !.listed = IF res.kind = "ok" THEN @ \o walkStories(product, res.items)
                         ELSE <<>>]

\* try { stories = await this.getProductStories(product.id, status);
\* allStories.push(...stories) } catch (error) { continue }
collectStories(s, product, res, n) ==
    [s EXCEPT !.fetched = Append(@, [product |-> product, ok |-> res.kind = "ok", n |-> n]),
              !.listed = IF res.kind = "ok" THEN @ \o walkStories(product, res.items)
                         ELSE @]

\* The rest of searchStories once allStories is complete: keyword 'a', the
\* default limit, no deep search.
walkResult(s) ==
    LET keywords == splitKeywords(<<"a">>)
        scored == scoreAll(s.listed, toLowerCase(<<"a">>), keywords)
    IN [s EXCEPT !.pc = "done", !.kind = "ok", !.keyword = <<"a">>,
                 !.keywords = keywords, !.limit = DefaultLimit, !.scored = scored,
                 !.at = 0, !.out = sliceStories(sortScored(scored), DefaultLimit)]

\* searchStories(keyword, options) without a productId, up to the request
\* of getProducts().
StartWalk(p) ==
    /\ CanStart(p)
    /\ search.pc = "none"
    /\ proc' = [proc EXCEPT ![p] =
          callRequest([IdleProc EXCEPT !.op = "getProducts"], "GET",
                      PathUrl("product-index"), sessionId)]
    /\ search' = [NoSearch EXCEPT !.pc = "products", !.walk = TRUE]
    /\ UNCHANGED <<sessionId, srvNextTok, srvLogged, net, now, batch, calc, dates,
                   tools, sniff, judged, export>>

\* getProducts() has returned or thrown.  A thrown error fails the search;
\* otherwise the loop over the products starts with the first of them.
ProductsReturned(p) ==
    /\ search.pc = "products"
    /\ proc[p].op = "getProducts"
    /\ proc[p].pc \in {"returned", "threw"}
    /\ IF proc[p].pc = "threw"
       THEN /\ search' = [search EXCEPT !.pc = "done", !.kind = "err",
                                        !.err = proc[p].err]
            /\ proc' = [proc EXCEPT ![p] = [@ EXCEPT !.op = "searchStories", !.pc = "done"]]
       ELSE \E products \in ProductLists, cfg \in WalkCfgs :
              IF products = <<>>
              THEN /\ search' = walkResult(search)
                   /\ proc' = [proc EXCEPT ![p] =
                         [@ EXCEPT !.op = "searchStories", !.pc = "done"]]
              ELSE /\ search' = [search EXCEPT !.pc = "walking", !.products = products,
                                               !.at = products[1]]
                   /\ proc' = [proc EXCEPT ![p] = fetchStories("", cfg, sessionId)]
    /\ UNCHANGED <<sessionId, srvNextTok, srvLogged, net, now, batch, calc, dates,
                   tools, sniff, judged, export>>

\* getProductStories(product.id, status) has returned or thrown inside the
\* loop: the stories are pushed, or the product is skipped; then the next
\* product is fetched, or the stories collected are scored, sorted and cut.
ProductFetched(p) ==
    /\ search.pc = "walking"
    /\ proc[p].op = "getProductStories"
    /\ proc[p].pc = "done"
    /\ LET s == collectStories(search, search.at, proc[p].result, proc[p].cfg.n)
           i == Len(s.fetched)
       IN IF i < Len(s.products)
          THEN \E cfg \in WalkCfgs :
                 /\ search' = [s EXCEPT !.at = s.products[i + 1]]
                 /\ proc' = [proc EXCEPT ![p] = fetchStories("", cfg, sessionId)]
          ELSE /\ search' = walkResult(s)
               /\ proc' = [proc EXCEPT ![p] = [@ EXCEPT !.op = "searchStories"]]
    /\ UNCHANGED <<sessionId, srvNextTok, srvLogged, net, now, batch, calc, dates,
                   tools, sniff, judged, export>>

\* One caller searching with and without a productId, against a backend
\* whose login works.
NextWalk ==
    \E p \in Callers :
       \/ ensureLoggedIn(p)
       \/ forceReLogin(p)
       \/ SessionIdGranted(p)
       \/ LoginAccepted(p)
       \/ sendEndpoint(p)
       \/ retryRequest(p)
       \/ EndpointResponse(p)
       \/ PageReturned(p)
       \/ PageThrew(p)
       \/ StartSearch(p)
       \/ SearchListed(p)
       \/ StartWalk(p)
       \/ ProductsReturned(p)
       \/ ProductFetched(p)

SpecWalk == Init /\ [][NextWalk]_vars

\* --------------------------------------- exportItems: one file per module
\* The modules of a search export, the image urls of the stories, and how
\* many different images the stories of one module show.
ExportModules == {1, 2}
ImageUrls == {1, 2, 3}
MaxModuleImages == 2
\* Array.from(new Set(moduleImageUrls)): no url twice.
UniqueUrlLists ==
    {u \in UNION {[1..n -> ImageUrls] : n \in 0..MaxModuleImages} :
       \A i, j \in 1..Len(u) : i # j => u[i] # u[j]}
\* What downloadImages reports for one url.
Outcomes == {[success |-> TRUE, mimeType |-> "image/png"],
             [success |-> TRUE, mimeType |-> "image/jpeg"],
             [success |-> FALSE, mimeType |-> ""]}

\* ext: '.jpg' for image/jpeg and image/jpg, '.gif' for image/gif, else '.png'
extOf(mimeType) ==
    IF mimeType \in {"image/jpeg", "image/jpg"} THEN ".jpg"
    ELSE IF mimeType = "image/gif" THEN ".gif"
    ELSE ".png"

\* path.join(imagesDir, `${entityType}_${entityId}_image_${i + 1}${ext}`):
\* i is the 0-based position in downloadedImages, k = i + 1.
localPathOf(exportDir, entityType, entityId, k, ext) ==
    [dir |-> exportDir, entityType |-> entityType, entityId |-> entityId,
     index |-> k, ext |-> ext]
NoPath == [dir |-> "", entityType |-> "", entityId |-> 0, index |-> 0, ext |-> ""]

\* saveImagesToDisk(downloadedImages, exportDir, entityType, entityId): the
\* SavedImage of position k.
savedImage(img, exportDir, entityType, entityId, k) ==
    IF ~img.success
    THEN [originalUrl |-> img.url, localPath |-> NoPath, success |-> FALSE]
    ELSE [originalUrl |-> img.url,
          localPath |-> localPathOf(exportDir, entityType, entityId, k, extOf(img.mimeType)),
          success |-> TRUE]

saveImagesToDisk(downloadedImages, exportDir, entityType, entityId) ==
    [k \in 1..Len(downloadedImages) |->
        savedImage(downloadedImages[k], exportDir, entityType, entityId, k)]

\* fs.writeFileSync(localPath, imageBuffer) for each saved image, in order:
\* a file holds what was written to it last.
RECURSIVE writeFiles(_, _)
writeFiles(disk, saved) ==
    IF saved = <<>> THEN disk
    ELSE LET s == Head(saved)
             d == IF s.success
                  THEN [p \in (DOMAIN disk) \cup {s.localPath} |->
                          IF p = s.localPath THEN s.originalUrl ELSE disk[p]]
                  ELSE disk
         IN writeFiles(d, Tail(saved))

EmptyDisk == [p \in {} |-> 0]

\* exportItems for a search whose stories belong to several modules: every
\* module's export is started; a module without images writes its file at
\* once, the others wait for downloadImages.
StartExport ==
    /\ export.pc = "none"
    /\ \E urls \in [ExportModules -> UniqueUrlLists], productId \in {0, 7} :
         export' = [pc |-> "exporting", productId |-> productId,
                    urls |-> urls,
                    state |-> [m \in ExportModules |->
                                 IF urls[m] = <<>> THEN "written" ELSE "downloading"],
                    saved |-> [m \in ExportModules |-> <<>>],
                    disk |-> EmptyDisk, allSavedImages |-> <<>>]
    /\ UNCHANGED <<sessionId, srvNextTok, srvLogged, net, proc, now, batch, calc,
                   search, dates, tools, sniff, judged>>

\* downloadImages of module m has returned: the images are saved into
\* <baseDir>/images under the product's id and the module file is written.
ModuleDownloaded(m) ==
    /\ export.pc = "exporting"
    /\ export.state[m] = "downloading"
    /\ \E outcome \in [1..Len(export.urls[m]) -> Outcomes] :
         LET downloadedImages ==
               [k \in 1..Len(export.urls[m]) |->
                  [url |-> export.urls[m][k], success |-> outcome[k].success,
                   mimeType |-> outcome[k].mimeType]]
             moduleSavedImages ==
               saveImagesToDisk(downloadedImages, "baseDir/images", "story",
                                export.productId)
         IN export' = [export EXCEPT !.state[m] = "written",
                                     !.saved[m] = moduleSavedImages,
                                     !.disk = writeFiles(@, moduleSavedImages)]
    /\ UNCHANGED <<sessionId, srvNextTok, srvLogged, net, proc, now, batch, calc,
                   search, dates, tools, sniff, judged>>

\* await Promise.allSettled(moduleExportPromises); allSavedImages.push(...)
ExportReturns ==
    /\ export.pc = "exporting"
    /\ \A m \in ExportModules : export.state[m] = "written"
    /\ export' = [export EXCEPT !.pc = "done",
                                !.allSavedImages = export.saved[1] \o export.saved[2]]
    /\ UNCHANGED <<sessionId, srvNextTok, srvLogged, net, proc, now, batch, calc,
                   search, dates, tools, sniff, judged>>

NextExport ==
    \/ StartExport
    \/ \E m \in ExportModules : ModuleDownloaded(m)
    \/ ExportReturns

SpecExport == Init /\ [][NextExport]_vars

\* ------------------------------------------------------------- claims (2)
Chars(str) == {str[i] : i \in 1..Len(str)}

\* C15, as stated: splitKeywords(k) has at least one token, and when k has
\* no ASCII letter or digit and no ideograph the result is [lowercase(k)].
C15_FallbackOnKeyword ==
    calc.pc = "split" =>
      /\ Len(calc.keywords) >= 1
      /\ Chars(calc.keyword) \cap (AsciiLower \cup AsciiUpper \cup AsciiDigits \cup Ideographs) = {}
            => calc.keywords = <<toLowerCase(calc.keyword)>>

\* C15, amended: splitKeywords(k) has at least one token, and when
\* lowercase(k) has no ASCII letter or digit and no ideograph the result is
\* [lowercase(k)].
C15_FallbackOnLowercase ==
    calc.pc = "split" =>
      /\ Len(calc.keywords) >= 1
      /\ (\A i \in 1..Len(calc.keyword) :
             /\ lowerChar(calc.keyword[i]) \notin AsciiLower \cup AsciiDigits
             /\ calc.keyword[i] \notin Ideographs)
            => /\ Len(calc.keywords) = 1
               /\ Len(calc.keywords[1]) = Len(calc.keyword)
               /\ \A i \in 1..Len(calc.keyword) :
                     calc.keywords[1][i] = lowerChar(calc.keyword[i])

C15_Witness ==
    /\ calc.pc = "split"
    /\ calc.keyword = <<" ", "-", " ">>
    /\ calc.keywords = <<(<<" ", "-", " ">>)>>

\* Some token occurs in the (lower-cased) text.
HasToken(text, keywords) ==
    \E i \in 1..Len(keywords) : includes(toLowerCase(text), keywords[i])
HasKeyword(text, keyword) == includes(toLowerCase(text), toLowerCase(keyword))

\* C16, as stated: the score of a story lies in [0, 130].
C16_ScoreWithin130 ==
    calc.pc = "scored" =>
      calc.score.num >= 0 /\ calc.score.num <= 130 * calc.score.den

\* C16, amended: the score of a story lies in [0, 150].
C16_ScoreWithin150 ==
    calc.pc = "scored" =>
      /\ calc.score.den = Len(calc.keywords) /\ calc.score.den >= 1
      /\ calc.score.num >= 0 /\ calc.score.num <= 150 * calc.score.den

C16_Witness ==
    /\ calc.pc = "scored"
    /\ calc.score.num = 150 * calc.score.den
    /\ calc.keyword # <<>>

\* C17, as stated: the score is 0 exactly when none of title, spec, module
\* name and product name contains a token.
C17_ZeroIffNoToken ==
    calc.pc = "scored" =>
      (calc.score.num = 0 <=>
         /\ ~HasToken(calc.story.title, calc.keywords)
         /\ ~HasToken(calc.story.spec, calc.keywords)
         /\ ~HasToken(calc.story.moduleName, calc.keywords)
         /\ ~HasToken(calc.story.productName, calc.keywords))

\* C17, amended: the score is 0 exactly when neither title nor spec contains
\* a token and neither module name nor product name contains the keyword.
C17_ZeroIffNoMatch ==
    calc.pc = "scored" =>
      (calc.score.num = 0 <=>
         /\ ~HasToken(calc.story.title, calc.keywords)
         /\ ~HasToken(calc.story.spec, calc.keywords)
         /\ ~HasKeyword(calc.story.moduleName, calc.keyword)
         /\ ~HasKeyword(calc.story.productName, calc.keyword))

C17_Witness ==
    /\ calc.pc = "scored"
    /\ calc.score.num = 0
    /\ HasToken(calc.story.moduleName, calc.keywords)
    /\ calc.story.title # <<>> /\ calc.story.spec # <<>>

IsExample == calc.keyword = ExampleKeyword /\ calc.story.title = ExampleTitle

\* C18, as stated: for the example keyword and title the title tier is 80,
\* and the score is 80 plus description and auxiliary points.
C18_ExampleTitleTier80 ==
    (calc.pc = "scored" /\ IsExample) =>
      /\ calc.score.num >= 80 * calc.score.den
      /\ calc.score.num <= (80 + 40 + 10) * calc.score.den

\* C18, amended: for the example keyword and title the title tier is 60 (the
\* token tier, four tokens of four in the title), and the score is 60 plus
\* description points (at most 40) and the auxiliary 10.
C18_ExampleTitleTier60 ==
    (calc.pc = "scored" /\ IsExample) =>
      /\ Len(calc.keywords) = 4
      /\ \A i \in 1..4 : includes(toLowerCase(ExampleTitle), calc.keywords[i])
      /\ ~includes(toLowerCase(ExampleTitle), toLowerCase(ExampleKeyword))
      /\ calc.score.num >= 60 * calc.score.den
      /\ calc.score.num <= (60 + 40 + 10) * calc.score.den
      /\ (calc.story.spec = <<>> /\ calc.story.moduleName = <<>> /\ calc.story.productName = <<>>)
            => calc.score.num = 60 * calc.score.den

C18_Witness ==
    /\ calc.pc = "scored" /\ IsExample
    /\ calc.story.spec = <<>> /\ calc.story.moduleName = <<>> /\ calc.story.productName = <<>>
    /\ calc.score = [num |-> 240, den |-> 4]

N_urls == Len(batch.imageUrls)
\* The transfer of item i is still unresolved.
Unresolved(i) == batch.items[i].transfer = "pending"

\* C11: in both modes downloadImages returns as many results as it was given
\* urls, the i-th result carrying the i-th url, whatever the order in which
\* the downloads complete and whichever fail or time out.
C11_OneResultPerUrlInOrder ==
    batch.pc = "returned" =>
      /\ Len(batch.out) = N_urls
      /\ \A i \in 1..N_urls : batch.out[i].url = batch.imageUrls[i]

\* Item 2 settled (by its timer) after item 3 and item 1 failed.
C11_Witness ==
    /\ batch.pc = "returned" /\ batch.parallel /\ N_urls = 3
    /\ batch.out[1].success = FALSE /\ batch.out[1].error = "Transport"
    /\ batch.out[2].error = "timeout"
    /\ batch.out[3].success

\* C12: in parallel mode every timer is started when the call is made, so
\* the call returns at most timeoutMs later; an item whose transfer has not
\* resolved when its timer fires has the timeout failure at its position,
\* and an item whose transfer resolved with the image before that has its
\* success result.
C12_ParallelWithinOneTimeout ==
    (batch.pc \in {"running", "returned"} /\ batch.parallel) =>
      /\ \A i \in 1..N_urls :
            batch.items[i].timer # "unset" /\ batch.items[i].deadline = batch.started + timeoutMs
      /\ now <= batch.started + timeoutMs \/ batch.pc = "returned"
      /\ batch.pc = "returned" =>
            /\ batch.returnedAt <= batch.started + timeoutMs
            /\ \A i \in 1..N_urls :
                 /\ Unresolved(i) => batch.out[i] = TimedOut(batch.imageUrls[i])
                 /\ (batch.items[i].transfer = "bytes" /\ batch.items[i].inTime)
                       => batch.out[i] = Downloaded(batch.imageUrls[i])

\* Three urls, the transfer of the second never resolves.
C12_Witness ==
    /\ batch.pc = "returned" /\ batch.parallel /\ N_urls = 3
    /\ batch.out[1].success /\ batch.out[3].success
    /\ batch.out[2] = TimedOut(batch.imageUrls[2])
    /\ Unresolved(2)
    /\ batch.returnedAt = batch.started + timeoutMs

\* C13: a call never rejects; an item whose transfer threw (a failed login
\* inside downloadStoryImage included) or timed out has a success = false
\* result for its own url, and every other url has its own result.
C13_ItemFailureIsolated ==
    /\ batch.pc # "rejected"
    /\ batch.pc = "returned" =>
         \A i \in 1..N_urls :
           /\ batch.out[i].url = batch.imageUrls[i]
           /\ batch.out[i] # NoImage
           /\ (batch.items[i].transfer = "threw" /\ batch.items[i].inTime) =>
                 /\ ~batch.out[i].success
                 /\ batch.out[i].error \in {"Transport", "SessionIdError", "LoginError"}
           /\ (batch.items[i].transfer = "bytes" /\ batch.items[i].inTime) =>
                 batch.out[i].success
           /\ ~batch.items[i].inTime => batch.out[i] = TimedOut(batch.imageUrls[i])
    /\ \A i \in 1..Len(batch.items) :
         (batch.items[i].transfer = "threw" /\ batch.items[i].inTime /\ batch.pc = "running") =>
            /\ batch.items[i].race = Failed(batch.imageUrls[i], proc[i].err)
            /\ \A k \in 1..Len(batch.items) :
                 (k # i /\ batch.items[k].transfer = "pending" /\ batch.items[k].timer = "armed")
                    => batch.items[k].race = NoImage

\* The first item failed at login, the second was downloaded.
C13_Witness ==
    /\ batch.pc = "returned" /\ N_urls >= 2
    /\ batch.out[1] = Failed(batch.imageUrls[1], "SessionIdError")
    /\ batch.out[2].success

\* C14: a running downloadImages call returns, whatever the transfers do; in
\* serial mode it is never later than one timeout interval per url started.
C14_BatchReturns ==
    /\ (batch.pc = "running") ~> (batch.pc = "returned")
    /\ [](batch.pc = "running" =>
            now <= batch.started + Len(batch.results) * timeoutMs + timeoutMs)
    /\ [](batch.pc = "returned" => batch.returnedAt <= batch.started + N_urls * timeoutMs)

\* A serial call over three urls none of whose transfers resolved.
C14_Witness ==
    /\ batch.pc = "returned" /\ ~batch.parallel /\ N_urls = 3
    /\ \A i \in 1..3 : Unresolved(i) /\ batch.out[i].error = "timeout"
    /\ batch.returnedAt = batch.started + 3 * timeoutMs

\* item a stands before item b in the ranking: higher score, or the same
\* score and the higher id.
Outranks(a, b) == a.score > b.score \/ (a.score = b.score /\ a.story.id > b.story.id)
ScoredAt(k) == CHOOSE item \in {search.scored[j] : j \in 1..Len(search.scored)} :
                  item.story = search.out[k]
Returned == {search.out[k] : k \in 1..Len(search.out)}

C20_DeepSearchFetchesDetail ==
    (search.pc = "done" /\ search.kind = "ok" /\ search.deepSearch) =>
      \A j \in 1..Len(search.listed) :
        (/\ j <= DeepMax
         /\ includes(toLowerCase(search.listed[j].title), toLowerCase(search.keyword))
         /\ ~includes(toLowerCase(search.listed[j].spec), toLowerCase(search.keyword)))
           => search.listed[j].id \in search.detailed


\* ------------------------------------------------------------- claims (3)
\* The calendar day a date string names, and whether it names one.
Readable(dateStr) == dateStr.kind \in {"date", "datetime"}
KeptByDay(story) ==
    /\ Readable(story.openedDate)
    /\ Readable(dates.startDate) => story.openedDate.day >= dates.startDate.day
    /\ Readable(dates.endDate) => story.openedDate.day <= dates.endDate.day

\* C21: with a startDate or an endDate, searchStories keeps exactly the
\* stories that have a readable openedDate whose day is not before the day of
\* startDate and not after the day of endDate (the time of day plays no part:
\* a story opened on the endDate day, or on the startDate day, is kept).
C21_DatePortionOnly ==
    (dates.pc = "filtered" /\ (~falsy(dates.startDate) \/ ~falsy(dates.endDate)))
      => dates.out = SelectSeq(dates.stories, KeptByDay)

\* Positions of "sid" calls made after the first endpoint send of a request.
SidAfterFirstSend(r) ==
    \E i, j \in 1..Len(r.calls) :
       i < j /\ r.calls[i] = "endpoint" /\ r.calls[j] = "sid"

\* A request whose first response was an expired one renews on its own
\* account: it is about to call forceReLogin, or has called it exactly once
\* and issued a session-id call of its own for it.
RenewsItself(r) ==
    \/ r.pc = "force" /\ r.renewals = 0
    \/ r.renewals = 1 /\ SidAfterFirstSend(r)

\* C22: renewal is not serialised between concurrent requests: every request
\* that observes an expired response calls forceReLogin itself, whatever
\* renewal another request has under way, and every session-id call that
\* resolves stores its identifier as the held token, over whatever is held,
\* so the last one to resolve decides the token.
C22_IndependentRenewals ==
    /\ [](\A p \in Concurrent :
            (proc[p].op \in RequestOps /\ proc[p].hist # <<>>
               /\ proc[p].hist[1] = "expired") => RenewsItself(proc[p]))
    /\ [][\A p \in Concurrent :
            (proc[p].pc = "awaitSid" /\ proc'[p].pc = "awaitLogin")
               => (sessionId' = proc'[p].issued /\ sessionId' # NoToken)]_vars

\* Two requests have each observed expiry and each called forceReLogin: two
\* session-id calls are in flight at the same time.
C22_Witness ==
    /\ \A p \in Concurrent :
         /\ proc[p].op \in RequestOps /\ proc[p].hist = <<"expired">>
         /\ proc[p].ctx = "force" /\ proc[p].renewals = 1
         /\ proc[p].pc = "awaitSid" /\ SidMsg(p) \in net

\* C23: a login POST in flight was sent by a login() whose previous network
\* call was its own /api-getSessionID.json call, and carries the identifier
\* that call returned; login() is entered only while no token is held, so it
\* always makes that call.  This holds with two callers interleaved.
C23_SessionIdPrecedesLogin ==
    /\ [](\A m \in net : m.kind = "login" =>
            LET r == proc[m.from]
                n == Len(r.calls)
            IN /\ r.pc = "awaitLogin"
               /\ n >= 2 /\ r.calls[n] = "login" /\ r.calls[n - 1] = "sid"
               /\ r.sessAns = <<"token">>
               /\ m.sid = r.issued /\ m.sid # NoToken)
    /\ [][\A p \in Concurrent :
            (proc[p].pc \in {"ensure", "force"}
               /\ proc'[p].pc \in {"awaitSid", "awaitLogin"})
               => (sessionId' = NoToken /\ proc'[p].pc = "awaitSid"
                   /\ SidMsg(p) \in net')]_vars

\* Two login POSTs are in flight at once, each with the identifier its own
\* session-id call returned; the held token is the later of the two.
C23_Witness ==
    /\ LoginMsg(1, 2) \in net /\ LoginMsg(2, 1) \in net
    /\ proc[1].issued = 2 /\ proc[2].issued = 1
    /\ sessionId = 2

\* C24: a transfer of downloadStoryImage that the backend answers with a
\* login page is recognised as an expired session: downloadStoryImage does
\* not return that body (it renews the session and sends the transfer once
\* more), and the item is never reported as success = true with the login
\* page as its image.
C24_ExpiryRecognisedOnImages ==
    \A i \in 1..Len(batch.items) :
       (proc[i].op = "downloadStoryImage" /\ proc[i].hist # <<>>
          /\ Last(proc[i].hist) = "expired")
         => /\ proc[i].pc # "returned"
            /\ batch.items[i].transfer # "bytes"
            /\ ~batch.items[i].race.success

\* C25: a batch tool makes the requests of id k only once ids 1..k-1 each have
\* their outcome; the result it returns has exactly one outcome per input id,
\* in input order, with success = false exactly for the ids one of whose
\* requests failed; a failure of one id neither fails the call nor stops the
\* later ids from being processed.
C25_BatchPerItemOutcomes ==
    /\ tools.pc \in {"await", "returned"} =>
         /\ \A j \in 1..Len(tools.log) : tools.log[j].at = tools.log[j].k - 1
         /\ \A i, j \in 1..Len(tools.log) : i < j => tools.log[i].k <= tools.log[j].k
         /\ \A j \in 1..Len(tools.results) :
              /\ tools.results[j].id = tools.ids[j]
              /\ tools.results[j].success = (j \notin tools.failed)
    /\ tools.pc = "await" => Len(tools.results) = tools.k - 1
    /\ tools.pc = "returned" =>
         /\ Len(tools.out.results) = Len(tools.ids)
         /\ tools.out.results = tools.results
         /\ tools.out.total = Len(tools.ids)
         /\ \A k \in 1..Len(tools.ids) :
              \E j \in 1..Len(tools.log) : tools.log[j].k = k
    /\ tools.pc = "threw" => (tools.err = "CONFIG_ERROR" /\ tools.log = <<>>)

\* The first of two ids failed and the second succeeded.
C25_Witness ==
    /\ tools.pc = "returned"
    /\ Len(tools.ids) = 2
    /\ tools.out.results = <<[id |-> tools.ids[1], success |-> FALSE],
                             [id |-> tools.ids[2], success |-> TRUE]>>

\* Number of tokens that occur in the lower-cased text.
TokensIn(text, keywords) ==
    Cardinality({i \in 1..Len(keywords) : includes(toLowerCase(text), keywords[i])})
\* The three terms of the score of the scored story, in units of 1 / (number
\* of tokens), for the lower-cased keyword kw and n tokens.
TitleTerm(kw, n) ==
    IF toLowerCase(calc.story.title) = kw THEN 100 * n
    ELSE IF HasKeyword(calc.story.title, kw) THEN 80 * n
    ELSE 60 * TokensIn(calc.story.title, calc.keywords)
DescTerm(kw, n) ==
    IF HasKeyword(calc.story.spec, kw) THEN 40 * n
    ELSE IF calc.story.spec # <<>> THEN 20 * TokensIn(calc.story.spec, calc.keywords)
    ELSE 0
AuxTerm(kw, n) ==
    IF HasKeyword(calc.story.moduleName, kw) \/ HasKeyword(calc.story.productName, kw)
    THEN 10 * n ELSE 0

\* C26: the score is titleTier + descTier + aux, where titleTier is 100 for
\* a lower-cased title equal to the keyword, else 80 for one that contains
\* it, else 60 * (tokens in the title / tokens); descTier is 40 for a body
\* that contains the keyword, else 20 * (tokens in the body / tokens) for a
\* non-empty body, else 0; aux is 10 when the module name or the product
\* name contains the keyword, else 0.
C26_ScoreIsSumOfTiers ==
    calc.pc = "scored" =>
      LET kw == toLowerCase(calc.keyword)
          n == Len(calc.keywords)
      IN /\ calc.score.den = n
         /\ calc.score.num = TitleTerm(kw, n) + DescTerm(kw, n) + AuxTerm(kw, n)

\* Two tokens, one of them in the title and the other in the body, the
\* keyword in neither: 60 * 1/2 + 20 * 1/2.
C26_Witness ==
    /\ calc.pc = "scored"
    /\ calc.keyword = <<"a", "DA">> /\ calc.keywords = <<(<<"a">>), (<<"DA">>)>>
    /\ calc.story.title = <<"A">> /\ calc.story.spec = <<"DA">>
    /\ calc.score = [num |-> 80, den |-> 2]

\* The pieces of str: the maximal runs of positions that In accepts, in the
\* order in which they occur.
PieceStarts(str, In(_, _)) ==
    {i \in 1..Len(str) : In(str, i) /\ (i = 1 \/ ~In(str, i - 1))}
PieceStop(str, i, In(_, _)) ==
    CHOOSE j \in i..Len(str) :
       /\ \A k \in i..j : In(str, k)
       /\ j = Len(str) \/ ~In(str, j + 1)
Pieces(str, In(_, _)) ==
    LET starts == PieceStarts(str, In)
        nth(n) == CHOOSE s \in starts : Cardinality({t \in starts : t < s}) = n - 1
    IN [n \in 1..Cardinality(starts) |-> SubSeq(str, nth(n), PieceStop(str, nth(n), In))]
\* The ideographs of str, one piece each.
IdeographsOf(str) ==
    LET at == {i \in 1..Len(str) : isChinese(str[i])}
        nth(n) == CHOOSE s \in at : Cardinality({t \in at : t < s}) = n - 1
    IN [n \in 1..Cardinality(at) |-> <<str[nth(n)]>>]

\* An ASCII letter, digit or hyphen of the keyword.
InRun(str, i) == str[i] \in AsciiLower \cup AsciiUpper \cup AsciiDigits \cup {"-"}
\* A character of a word of the lower-cased keyword: a lower-case letter or
\* digit, or a single hyphen standing between two of them.
InWord(str, i) ==
    \/ isWordChar(str[i])
    \/ /\ str[i] = "-" /\ 1 < i /\ i < Len(str)
       /\ isWordChar(str[i - 1]) /\ isWordChar(str[i + 1])

\* C27, as stated: the tokens are the maximal runs of ASCII letters, digits
\* and hyphens of the keyword, lower-cased, and its ideographs, and nothing
\* else (a keyword with neither is left to the fallback).
C27_MaximalRunsWithHyphens ==
    LET runs == Pieces(calc.keyword, InRun)
        expected == [n \in 1..Len(runs) |-> toLowerCase(runs[n])]
                      \o IdeographsOf(calc.keyword)
    IN (calc.pc = "split" /\ expected # <<>>) => calc.keywords = expected

\* C27, amended: the tokens are the words of the lower-cased keyword, a word
\* being a maximal run of lower-case ASCII letters and digits joined by
\* single hyphens (a hyphen at either end of a run, or next to another
\* hyphen, belongs to no token), followed by its ideographs; when there is
\* neither, the only token is the lower-cased keyword.
C27_WordsJoinedBySingleHyphens ==
    LET lowerKeyword == toLowerCase(calc.keyword)
        expected == Pieces(lowerKeyword, InWord) \o IdeographsOf(lowerKeyword)
    IN calc.pc = "split" =>
         calc.keywords = IF expected = <<>> THEN <<lowerKeyword>> ELSE expected

\* "A-" before an ideograph: the hyphen that ends the run is in no token.
C27_Witness ==
    /\ calc.pc = "split"
    /\ calc.keyword = <<"A", "-", "DA">>
    /\ calc.keywords = <<(<<"a">>), (<<"DA">>)>>

\* After page pg with payload d: the pager is there, it promises a later
\* page, the page was not empty, and the cap is not reached.
GoesOn(pg, d) ==
    /\ d.hasPager
    /\ pg < CeilDiv(d.recTotal, d.recPerPage)
    /\ Len(d.records) >= 1
    /\ pg < MaxPages

\* C29: when page p of a listing has been received, page p + 1 is requested
\* if and only if the response has a pager, p < ceil(recTotal / recPerPage),
\* the page held at least one record and p < 100; otherwise the fetch ends
\* with that page.
C29_PagingStopRule ==
    [][\A p \in Callers :
         (proc[p].op \in PagedOps /\ proc[p].pc = "returned") =>
            LET r == proc[p] IN
            IF GoesOn(r.currentPage, r.data)
            THEN /\ proc'[p].pc = "ensure"
                 /\ proc'[p].pageReqs = r.pageReqs + 1
                 /\ proc'[p].url = [pageUrl(r) EXCEPT !.page = r.currentPage + 1]
            ELSE /\ proc'[p].pc = "done"
                 /\ proc'[p].pageReqs = r.pageReqs
                 /\ proc'[p].resolved = r.currentPage]_vars

\* The listing ended on an empty second page although the pager reported
\* more pages and the cap was far.
C29_Witness ==
    /\ proc[1].op \in PagedOps /\ proc[1].pc = "done" /\ proc[1].result.kind = "ok"
    /\ proc[1].pageReqs = 2 /\ proc[1].resolved = 2
    /\ proc[1].data.hasPager /\ Len(proc[1].data.records) = 0
    /\ 2 < CeilDiv(proc[1].data.recTotal, proc[1].data.recPerPage)
    /\ Len(proc[1].result.items) = 2

\* Item i of the call has been started: its timer was set and its download
\* entered.
Started(i) == batch.items[i].timer # "unset"
\* The result of item i is determined.
Reported(i) == batch.items[i].race # NoImage

\* C30: in serial mode item i + 1 is started only once the result of item i
\* is determined and pushed, so at most one started item is without a result
\* at any time (exactly one while the call runs); whatever the result of
\* item i is, item i + 1 is started when it is determined, and the call
\* returns only after every url has been started and has its result.
C30_SerialOneAtATime ==
    (batch.pc \in {"running", "returned"} /\ ~batch.parallel) =>
      /\ \A i \in 1..N_urls :
           /\ Started(i) => (\A k \in 1..(i - 1) : Reported(k)) /\ Len(batch.results) >= i - 1
           /\ ~Started(i) => (proc[i].pc = "idle" /\ ~Reported(i))
           /\ (Reported(i) /\ i < N_urls) => Started(i + 1)
           /\ Reported(i) => (i <= Len(batch.results) /\ batch.results[i] = batch.items[i].race)
      /\ Cardinality({i \in 1..N_urls : Started(i) /\ ~Reported(i)})
            = IF batch.pc = "running" THEN 1 ELSE 0
      /\ batch.pc = "returned" =>
           /\ \A i \in 1..N_urls : Started(i) /\ Reported(i)
           /\ batch.out = batch.results /\ Len(batch.out) = N_urls

\* Serial mode, three urls: the first failed, the second timed out, and the
\* third is under way.
C30_Witness ==
    /\ batch.pc = "running" /\ ~batch.parallel /\ N_urls = 3
    /\ batch.results = <<Failed(batch.imageUrls[1], "Transport"), TimedOut(batch.imageUrls[2])>>
    /\ Started(3) /\ ~Reported(3)
    /\ batch.items[3].deadline > batch.items[2].deadline


\* ------------------------------------------------------------- claims (4)
\* The transfer of item i resolved only after its timer had settled the race.
LateCompletion(i) ==
    batch.items[i].transfer \in {"bytes", "threw"} /\ ~batch.items[i].inTime

\* C31: the transfer of a timed-out item is left running and may resolve
\* later; the item keeps its timeout result when it does.  No step changes a
\* result that is determined, a result that is pushed, or the returned array.
C31_LateCompletionIgnored ==
    /\ [](\A i \in 1..Len(batch.items) :
            LateCompletion(i) =>
               /\ batch.items[i].race = TimedOut(batch.imageUrls[i])
               /\ batch.pc = "returned" => batch.out[i] = TimedOut(batch.imageUrls[i]))
    /\ [][/\ \A i \in 1..Len(batch.items) :
               Reported(i) => batch'.items[i].race = batch.items[i].race
          /\ \A i \in 1..Len(batch.results) : batch'.results[i] = batch.results[i]
          /\ batch.pc = "returned" => (batch'.pc = "returned" /\ batch'.out = batch.out)]_vars

\* The call has returned the timeout of its second url and the success of
\* the others; the transfer of the second url then completed with the image.
C31_Witness ==
    /\ batch.pc = "returned" /\ N_urls = 3
    /\ batch.out[2] = TimedOut(batch.imageUrls[2])
    /\ batch.out[1].success /\ batch.out[3].success
    /\ batch.items[2].transfer = "bytes" /\ ~batch.items[2].inTime
    /\ proc[2].pc = "done"

\* The payload starts with the two bytes a, b.
StartsWith(payload, a, b) == Len(payload) >= 2 /\ payload[1] = a /\ payload[2] = b

\* C32: the type sniffed from a payload is image/jpeg when it starts FF D8,
\* image/gif when it starts 47 49 and image/png for every other payload,
\* those of fewer than two bytes included; the size of the success result is
\* the number of bytes of the payload.
C32_MimeFromFirstBytes ==
    sniff.pc = "result" =>
      /\ sniff.result.success
      /\ sniff.result.size = Len(sniff.imageBuffer)
      /\ sniff.result.mimeType =
            IF StartsWith(sniff.imageBuffer, 255, 216) THEN "image/jpeg"
            ELSE IF StartsWith(sniff.imageBuffer, 71, 73) THEN "image/gif"
            ELSE "image/png"

\* A payload of the single byte FF.
C32_Witness ==
    /\ sniff.pc = "result" /\ sniff.imageBuffer = <<255>>
    /\ sniff.result = [success |-> TRUE, mimeType |-> "image/png", size |-> 1]

\* C33: whether a body is an expired session depends on the body alone: it is
\* expired exactly when it is a string that holds one of the three markers,
\* never when it is anything else (a parsed envelope, whatever its content),
\* and the session is as it was before the question was asked.
C33_ExpiredIffMarkedString ==
    judged.pc = "result" =>
      /\ judged.expired = (judged.body.type = "html" /\ judged.body.markers # {})
      /\ (judged.body.type # "html" => ~judged.expired)
      /\ sessionId = judged.held /\ srvNextTok = judged.held

\* A parsed success envelope whose content holds '<script>', judged alive
\* while a token is held.
C33_Witness ==
    /\ judged.pc = "result" /\ judged.body.type = "json"
    /\ judged.body.status = "success" /\ "<script>" \in judged.body.markers
    /\ ~judged.expired /\ sessionId # NoToken

\* The response that process p's request()/postRequest() receives in this
\* step is a transport error or a body that is neither expired nor a success
\* envelope.
FailureArrives(p) ==
    /\ proc[p].pc = "awaitEndpoint"
    /\ Len(proc'[p].hist) = Len(proc[p].hist) + 1
    /\ Last(proc'[p].hist) \in {"transport", "failed"}

\* C34: a transport error, and a response that is neither expired nor a
\* success envelope, make request()/postRequest() throw at once: no forced
\* renewal is started, the endpoint is not sent again, no call is left in
\* flight, and the held token is the one held before.
C34_FailureThrowsWithoutRenewal ==
    [][\A p \in Procs :
         FailureArrives(p) =>
           /\ proc'[p].pc = "threw"
           /\ proc'[p].err \in {"Transport", "RequestFailed"}
           /\ proc'[p].renewals = proc[p].renewals
           /\ proc'[p].sends = proc[p].sends
           /\ proc'[p].retried = proc[p].retried
           /\ \A m \in net' : m.from # p
           /\ sessionId' = sessionId /\ srvLogged' = srvLogged]_vars

\* A first attempt answered with a failure envelope: thrown after one send
\* and no renewal, the token still held.
C34_Witness ==
    \E p \in Procs :
      /\ proc[p].op \in {"request", "postRequest"} /\ proc[p].pc = "threw"
      /\ proc[p].hist = <<"failed">> /\ proc[p].err = "RequestFailed"
      /\ proc[p].sends = 1 /\ proc[p].renewals = 0
      /\ sessionId # NoToken /\ sessionId = proc[p].sentWith[1]

\* C38: a failed login leaves the session absent: once login() has thrown
\* because its POST failed no token is held, and whenever no login is under
\* way a held token is one whose login POST succeeded.
C38_FailedLoginLeavesAbsent ==
    /\ \A p \in Procs :
         (proc[p].pc = "threw" /\ proc[p].err = "LoginError") => sessionId = NoToken
    /\ (\A p \in Procs : proc[p].pc # "awaitLogin") =>
         (sessionId # NoToken => sessionId \in srvLogged)

\* C39: getProductStories called with a status other than 'all' and without
\* a moduleId returns only stories of that status.
C39_StoriesOfRequestedStatus ==
    \A p \in Procs :
      (/\ proc[p].op = "getProductStories" /\ proc[p].pc = "done"
       /\ proc[p].status \notin {"", "all"} /\ proc[p].moduleId = 0
       /\ proc[p].result.kind = "ok") =>
        \A i \in 1..Len(proc[p].result.items) :
          proc[p].result.items[i].status = proc[p].status

\* The ids of the stories the backend holds for the products whose fetch
\* succeeded.
FetchedStoryIds ==
    UNION {{storyId(search.fetched[i].product, j) : j \in 1..search.fetched[i].n} :
             i \in {k \in 1..Len(search.fetched) : search.fetched[k].ok}}

\* C35: without a productId the products are fetched one at a time in the
\* order getProducts returned them; a product whose fetch fails is skipped
\* and the walk goes on, so that once the products are known the search
\* succeeds and returns the stories of exactly the products whose fetch
\* succeeded; with a productId a failed fetch fails the search.
C35_WalkSkipsFailedProducts ==
    /\ search.walk =>
         /\ Len(search.fetched) <= Len(search.products)
         /\ \A i \in 1..Len(search.fetched) : search.fetched[i].product = search.products[i]
         /\ search.pc = "walking" =>
              /\ search.at = search.products[Len(search.fetched) + 1]
              /\ Cardinality(net) <= 1
         /\ (search.pc = "done" /\ search.kind = "err") =>
              (search.products = <<>> /\ search.fetched = <<>> /\ search.err # "")
         /\ (search.pc = "done" /\ search.kind = "ok") =>
              /\ Len(search.fetched) = Len(search.products)
              /\ {search.out[i].id : i \in 1..Len(search.out)} = FetchedStoryIds
              /\ {search.listed[i].id : i \in 1..Len(search.listed)} = FetchedStoryIds
    /\ \A p \in Procs :
         (~search.walk /\ search.pc = "done" /\ proc[p].op = "searchStories"
          /\ proc[p].result.kind = "err") => search.kind = "err"

\* The first of two products failed, the second was fetched, and the search
\* returned the stories of the second.
C35_Witness ==
    /\ search.walk /\ search.pc = "done" /\ search.kind = "ok"
    /\ search.products = <<1, 2>>
    /\ ~search.fetched[1].ok /\ search.fetched[1].n > 0
    /\ search.fetched[2].ok /\ search.fetched[2].n > 0
    /\ search.out # <<>>

\* C36: whatever the interleaving of concurrent calls, ensureLoggedIn never
\* returns an absent token when it returns normally, no endpoint is sent
\* with an absent zentaosid, and forceReLogin does not throw its 'token
\* absent' error when the login it made itself succeeded.
C36_NoAbsentTokenUnderInterleaving ==
    /\ \A p \in Procs : proc[p].pc = "ensured" => proc[p].sid # NoToken
    /\ \A m \in net : m.kind = "endpoint" => m.sid # NoToken
    /\ \A p \in Procs :
         (proc[p].pc = "threw" /\ proc[p].err = "ReloginAbsent") =>
           ~(proc[p].sessAns # <<>> /\ Last(proc[p].sessAns) = "success")

\* The same for ensureLoggedIn alone.
C36_EnsureReturnsToken ==
    \A p \in Procs : proc[p].pc = "ensured" => proc[p].sid # NoToken

\* The same for forceReLogin alone.
C36_ForceThrowsOnlyOnFailedLogin ==
    \A p \in Procs :
      (proc[p].pc = "threw" /\ proc[p].err = "ReloginAbsent") =>
        ~(proc[p].sessAns # <<>> /\ Last(proc[p].sessAns) = "success")

\* C37: against a backend that accepts for good every token whose login POST
\* has succeeded, no request fails because its retry was answered as expired
\* too: a retry is always sent with a token whose login has completed.
C37_RetryNeverExpired ==
    /\ \A p \in Procs : ~(proc[p].pc = "threw" /\ proc[p].err = "SessionExpired")
    /\ \A m \in net :
         (m.kind = "endpoint" /\ proc[m.from].retried) => m.sid \in srvLogged

\* C40: in an export of several modules, two different image urls that were
\* both saved successfully are never given the same local file path.
C40_DistinctUrlsDistinctPaths ==
    export.pc \in {"exporting", "done"} =>
      \A m, n \in ExportModules :
        \A i \in 1..Len(export.saved[m]), j \in 1..Len(export.saved[n]) :
          LET a == export.saved[m][i]
              b == export.saved[n][j]
          IN (a.success /\ b.success /\ a.originalUrl # b.originalUrl)
                => a.localPath # b.localPath

====
